---- MODULE Spec2Model ----
(***************************************************************************)
(* A model of the Smooth Voxels library (smoothvoxels.1.1.0.js), its web   *)
(* worker (smoothvoxelworker.1.1.0.js) and the A-Frame 'svox' component.   *)
(*                                                                         *)
(* Strings that the code inspects character by character (the voxel        *)
(* matrix, hex colors, numbers) are sequences of one-character strings.    *)
(***************************************************************************)
EXTENDS Integers, Sequences, FiniteSets, TLC

VARIABLES
  text,       \* the model text handed to ModelReader.readFromString (its lines)
  firstRead,  \* what readFromString returned or threw; NotRun before the call
  written,    \* the lines ModelWriter.writeToString returned; NotRun before
  reread,     \* what reading the written lines returned or threw
  grid,       \* a VoxelMatrix filled by setVoxel
  serialized, \* the voxels of grid as both serializers of ModelWriter write them
  hardwareConcurrency, \* window.navigator.hardwareConcurrency
  elements,   \* the entities with an svox component: its data and its mesh
  WORKERPOOL, \* SVOX.WORKERPOOL: Null, or the fields of the WorkerPool
  inbox,      \* per worker, the tasks posted to it that it has not handled
  outbox,     \* the responses the workers posted that the page has not handled
  posted,     \* per element, the number of responses workers posted for it
  callbacks,  \* per element, the number of calls of the result callback for it
  scene,      \* a Model that is rendered: its materials, its voxels, its
              \* vertex index and the number of Vertex objects it created
  facesCreated, \* what the last prepareForRender or prepareForWrite of scene
              \* did: the faces _createFace returned, the bounds it found
  receiver,   \* the value or object a function of the library is called on
              \* directly
  outcome     \* what the calls on receiver returned or threw; NotRun before

textVars == <<text, firstRead, written, reread>>
writeVars == <<grid, serialized>>
svoxVars == <<hardwareConcurrency, elements, WORKERPOOL, inbox, outbox, posted, callbacks>>
renderVars == <<scene, facesCreated>>
callVars == <<receiver, outcome>>
vars == <<textVars, writeVars, svoxVars, renderVars, callVars>>

NotRun == [throw |-> "notrun"]

\* ------------------------------------------------------------------------
\* Characters
\* ------------------------------------------------------------------------
Digit == {"0", "1", "2", "3", "4", "5", "6", "7", "8", "9"}
Upper == {"A", "B", "C", "D", "E", "F", "G", "H", "I", "J", "K", "L", "M",
          "N", "O", "P", "Q", "R", "S", "T", "U", "V", "W", "X", "Y", "Z"}
Lower == {"a", "b", "c", "d", "e", "f", "g", "h", "i", "j", "k", "l", "m",
          "n", "o", "p", "q", "r", "s", "t", "u", "v", "w", "x", "y", "z"}

DigitValue(c) ==
  CASE c = "0" -> 0 [] c = "1" -> 1 [] c = "2" -> 2 [] c = "3" -> 3
    [] c = "4" -> 4 [] c = "5" -> 5 [] c = "6" -> 6 [] c = "7" -> 7
    [] c = "8" -> 8 [] c = "9" -> 9

DigitChar(d) ==
  CASE d = 0 -> "0" [] d = 1 -> "1" [] d = 2 -> "2" [] d = 3 -> "3"
    [] d = 4 -> "4" [] d = 5 -> "5" [] d = 6 -> "6" [] d = 7 -> "7"
    [] d = 8 -> "8" [] d = 9 -> "9"

\* parseInt(value, 10) of a string of decimal digits
RECURSIVE parseInt(_)
parseInt(s) ==
  IF s = <<>> THEN 0
  ELSE 10 * parseInt(SubSeq(s, 1, Len(s) - 1)) + DigitValue(s[Len(s)])

\* Number.prototype.toString() of a natural number
RECURSIVE toString(_)
toString(n) ==
  IF n < 10 THEN <<DigitChar(n)>>
  ELSE toString(n \div 10) \o <<DigitChar(n % 10)>>

\* the end (exclusive) of the longest run of characters of class cls that
\* starts at position i of s
RECURSIVE RunEnd(_, _, _)
RunEnd(s, i, cls) ==
  IF i <= Len(s) /\ s[i] \in cls THEN RunEnd(s, i + 1, cls) ELSE i

\* ------------------------------------------------------------------------
\* ModelReader: the voxel matrix
\* ------------------------------------------------------------------------

\* voxels.matchAll(/[0-9]+|[A-Z][a-z]*|-+|[()]/g): the chunks of a voxel
\* string, in order; characters that match no alternative are passed over
IsChunkStart(s, i) ==
  \/ s[i] \in Digit /\ (i = 1 \/ s[i - 1] \notin Digit)
  \/ s[i] \in Upper
  \/ s[i] = "-" /\ (i = 1 \/ s[i - 1] # "-")
  \/ s[i] \in {"(", ")"}

ChunkAt(s, i) ==
  IF s[i] \in Digit THEN SubSeq(s, i, RunEnd(s, i, Digit) - 1)
  ELSE IF s[i] \in Upper THEN SubSeq(s, i, RunEnd(s, i + 1, Lower) - 1)
  ELSE IF s[i] = "-" THEN SubSeq(s, i, RunEnd(s, i, {"-"}) - 1)
  ELSE <<s[i]>>

matchChunks(s) ==
  LET starts == SelectSeq([i \in 1..Len(s) |-> i], LAMBDA i : IsChunkStart(s, i))
  IN [k \in 1..Len(starts) |-> ChunkAt(s, starts[k])]

\* count copies of the sequence sub, one after the other
Repeated(sub, count) ==
  IF count <= 0 \/ sub = <<>> THEN <<>>
  ELSE [n \in 1..(count * Len(sub)) |-> sub[((n - 1) % Len(sub)) + 1]]

\* ModelReader._unpackRle. The calls of _unpackRle that are open form the
\* stack: each frame holds the result of its call and, in times, the count
\* that its caller repeats the result with; count is the local of the
\* innermost call; done is set when the outermost call returns at a ')'.
unpackRleStart ==
  [stack |-> <<[result |-> <<>>, times |-> 1]>>, count |-> 1, done |-> FALSE]

\* the innermost call returns: its caller pushes the result times times
unpackRleReturn(stack) ==
  LET n == Len(stack) IN
    [SubSeq(stack, 1, n - 1) EXCEPT
       ![n - 1].result = @ \o Repeated(stack[n].result, stack[n].times)]

\* result.push(...) in the innermost call
unpackRlePush(stack, chunks) ==
  [stack EXCEPT ![Len(stack)].result = @ \o chunks]

\* one turn of the while loop, on the chunk value
unpackRleChunk(state, value) ==
  IF state.done THEN state
  ELSE IF value[1] \in Digit THEN [state EXCEPT !.count = parseInt(value)]
  ELSE IF value = <<"(">> THEN
    [state EXCEPT !.stack = Append(@, [result |-> <<>>, times |-> state.count]),
                  !.count = 1]
  ELSE IF value = <<")">> THEN
    IF Len(state.stack) = 1 THEN [state EXCEPT !.done = TRUE]
    ELSE [state EXCEPT !.stack = unpackRleReturn(@), !.count = 1]
  ELSE IF Len(value) > 1 /\ value[1] \in Upper /\ value[2] = value[1] THEN
    [state EXCEPT !.count = 1,
       !.stack = unpackRlePush(@,
         IF state.count > 1
         THEN << <<<<value[1]>>, state.count>>, <<<<value[1]>>, Len(value) - 1>> >>
         ELSE << <<<<value[1]>>, Len(value)>> >>)]
  ELSE IF Len(value) > 1 /\ value[1] = "-" /\ value[2] = "-" THEN
    [state EXCEPT !.count = 1,
       !.stack = unpackRlePush(@,
         IF state.count > 1
         THEN << <<<<"-">>, state.count>>, <<<<"-">>, Len(value) - 1>> >>
         ELSE << <<<<"-">>, Len(value)>> >>)]
  ELSE [state EXCEPT !.count = 1,
          !.stack = unpackRlePush(@, << <<value, state.count>> >>)]

\* the turns of the while loops on the chunks from..to, in order
RECURSIVE unpackRleChunks(_, _, _, _)
unpackRleChunks(state, chunks, from, to) ==
  IF from > to THEN state
  ELSE IF from = to THEN unpackRleChunk(state, chunks[from])
  ELSE LET mid == (from + to) \div 2
           first == unpackRleChunks(state, chunks, from, mid)
       IN IF first.done THEN first
          ELSE unpackRleChunks(first, chunks, mid + 1, to)

\* the iterator is done: every open call returns
RECURSIVE unpackRleDone(_)
unpackRleDone(stack) ==
  IF Len(stack) = 1 THEN stack[1].result ELSE unpackRleDone(unpackRleReturn(stack))

unpackRle(chunks) ==
  unpackRleDone(unpackRleChunks(unpackRleStart, chunks, 1, Len(chunks)).stack)

\* ------------------------------------------------------------------------
\* BoundingBox and VoxelMatrix
\* ------------------------------------------------------------------------
POSITIVE_INFINITY == 1000000000
NEGATIVE_INFINITY == 0 - POSITIVE_INFINITY

Min(a, b) == IF a < b THEN a ELSE b
Max(a, b) == IF a > b THEN a ELSE b

\* BoundingBox.reset
BoundingBoxReset ==
  [minX |-> POSITIVE_INFINITY, minY |-> POSITIVE_INFINITY, minZ |-> POSITIVE_INFINITY,
   maxX |-> NEGATIVE_INFINITY, maxY |-> NEGATIVE_INFINITY, maxZ |-> NEGATIVE_INFINITY]

\* BoundingBox.set
BoundingBoxSet(b, x, y, z) ==
  [minX |-> Min(b.minX, x), minY |-> Min(b.minY, y), minZ |-> Min(b.minZ, z),
   maxX |-> Max(b.maxX, x), maxY |-> Max(b.maxY, y), maxZ |-> Max(b.maxZ, z)]

\* new BoundingBox(): the constructor is spelled contructor and never runs,
\* so the box holds no minX .. maxZ until reset is called
NewBoundingBox == [unset |-> TRUE]

\* the box after Math.min and Math.max of undefined or NaN and a number
NaNBoundingBox == [nan |-> TRUE]

\* BoundingBox.set on a box that may not have been reset
BoundingBoxSetAny(b, x, y, z) ==
  IF b = NewBoundingBox \/ b = NaNBoundingBox THEN NaNBoundingBox
  ELSE BoundingBoxSet(b, x, y, z)

\* BoundingBox.size
BoundingBoxSize(b) ==
  IF b.minX > b.maxX THEN <<0, 0, 0>>
  ELSE <<b.maxX - b.minX + 1, b.maxY - b.minY + 1, b.maxZ - b.minZ + 1>>

\* BoundingBox.size on a box that may not have been reset: undefined >
\* undefined and NaN > NaN are false, and undefined - undefined + 1 and
\* NaN - NaN + 1 are NaN
BoundingBoxSizeAny(b) ==
  IF b = NewBoundingBox \/ b = NaNBoundingBox THEN [nan |-> TRUE, xyz |-> <<>>]
  ELSE [nan |-> FALSE, xyz |-> BoundingBoxSize(b)]

\* new VoxelMatrix(): no voxels, the bounds reset by prepareForWrite, count 0.
\* cells is the sparse array _voxels: a function from the occupied
\* coordinates <<x, y, z>> to their Voxel
NewVoxelMatrix == [cells |-> <<>>, bounds |-> BoundingBoxReset, count |-> 0]

\* new Voxel(color); faces holds the names of the faces of the voxel
Voxel(color) == [color |-> color, faces |-> {}, visible |-> TRUE]

\* VoxelMatrix.getVoxel; NoVoxel stands for null / undefined
NoVoxel == [none |-> TRUE]
getVoxel(m, x, y, z) ==
  IF <<x, y, z>> \in DOMAIN m.cells THEN m.cells[<<x, y, z>>] ELSE NoVoxel

\* f with the value at key k set to v, k added to the domain when new
Put(f, k, v) == [j \in (DOMAIN f) \cup {k} |-> IF j = k THEN v ELSE f[j]]

\* VoxelMatrix.setVoxel; the voxel stored holds the coordinates it was set
\* at
setVoxel(m, x, y, z, voxel) ==
  [cells  |-> Put(m.cells, <<x, y, z>>,
                  [x |-> x, y |-> y, z |-> z, color |-> voxel.color,
                   faces |-> voxel.faces, visible |-> voxel.visible]),
   bounds |-> BoundingBoxSet(m.bounds, x, y, z),
   count  |-> IF <<x, y, z>> \in DOMAIN m.cells THEN m.count ELSE m.count + 1]

\* voxel.color-- makes the color of the voxel NaN
NaN == [nan |-> TRUE]

\* VoxelMatrix.clearVoxel for x >= 0: matrix.splice(x, 1) removes the
\* element at index x of the row, which lies below the index x + 1000000
\* of every voxel, so each voxel of the row moves to the index below its
\* own; the count goes up
clearVoxel(m, x, y, z) ==
  IF <<x, y, z>> \notin DOMAIN m.cells THEN m
  ELSE LET cleared == [m.cells EXCEPT ![<<x, y, z>>].color = NaN]
           Moved(c) == IF c[2] = y /\ c[3] = z THEN <<c[1] - 1, c[2], c[3]>> ELSE c
           Origin(c) == IF c[2] = y /\ c[3] = z THEN <<c[1] + 1, c[2], c[3]>> ELSE c
       IN [cells  |-> [c \in {Moved(d) : d \in DOMAIN m.cells} |-> cleared[Origin(c)]],
           bounds |-> m.bounds,
           count  |-> m.count + 1]

\* VoxelMatrix.forEach: the coordinates in the order of the indices of
\* _voxels, z first, then y, then x
RECURSIVE forEachOrder(_)
forEachOrder(todo) ==
  IF todo = {} THEN <<>>
  ELSE LET next == CHOOSE c \in todo : \A d \in todo :
                     \/ c[3] < d[3]
                     \/ c[3] = d[3] /\ c[2] < d[2]
                     \/ c[3] = d[3] /\ c[2] = d[2] /\ c[1] <= d[1]
       IN <<next>> \o forEachOrder(todo \ {next})

\* VoxelMatrix.prepareForWrite: the bounds and the count are derived again by
\* setting every stored voxel once more, at the coordinates it holds; todo
\* are the indices that forEach still visits
RECURSIVE overwriteVoxels(_, _)
overwriteVoxels(m, todo) ==
  IF todo = <<>> THEN m
  ELSE IF m.count >= 0
  THEN overwriteVoxels(setVoxel(m, m.cells[Head(todo)].x, m.cells[Head(todo)].y,
                                m.cells[Head(todo)].z, m.cells[Head(todo)]),
                       Tail(todo))
  ELSE m

VoxelMatrixPrepareForWrite(m) ==
  overwriteVoxels([cells |-> m.cells, bounds |-> BoundingBoxReset, count |-> 0],
                  forEachOrder(DOMAIN m.cells))

\* ------------------------------------------------------------------------
\* Color, Material
\* ------------------------------------------------------------------------
HexDigit == Digit \cup {"A", "B", "C", "D", "E", "F"}

\* String.prototype.toUpperCase on the characters a hex color can hold
UpperChar(c) ==
  CASE c = "a" -> "A" [] c = "b" -> "B" [] c = "c" -> "C"
    [] c = "d" -> "D" [] c = "e" -> "E" [] c = "f" -> "F"
    [] OTHER -> c

toUpperCase(s) == [i \in 1..Len(s) |-> UpperChar(s[i])]

\* Color._set: the test /^#([0-9a-fA-F]{3}|#?[0-9a-fA-F]{6})$/ on the
\* upper-cased value
IsHexColor(s) ==
  LET AllHex(from) == \A i \in from..Len(s) : s[i] \in HexDigit IN
    /\ Len(s) >= 1 /\ s[1] = "#"
    /\ \/ Len(s) = 4 /\ AllHex(2)
       \/ Len(s) = 7 /\ AllHex(2)
       \/ Len(s) = 8 /\ s[2] = "#" /\ AllHex(3)

\* NoColor stands for null: an empty cell of the voxel matrix
NoColor == [none |-> TRUE]

\* Color.fromHex followed by the id and the material it is given; color is
\* the string Color.toString returns:
\* '#' + the value without its first '#'
fromHex(hex, id, material) ==
  [id |-> id, color |-> <<"#">> \o Tail(toUpperCase(hex)), material |-> material]

\* The shading parameters are modelled as far as the voxel matrix and the face
\* visibility use them: the roughness and the opacity in percent, the
\* transparent flag and the wireframe flag; every other parameter has its
\* default value.
\* new BaseMaterial(...)
BaseMaterial(roughness, opacity, transparent, wireframe) ==
  [roughness |-> roughness, opacity |-> opacity, transparent |-> transparent,
   wireframe |-> wireframe]

\* BaseMaterial.baseId: the key holds the roughness, the opacity and the
\* wireframe flag, and not the transparent flag
baseId(baseMaterial) ==
  <<baseMaterial.roughness, baseMaterial.opacity, baseMaterial.wireframe>>

\* BaseMaterial.isTransparent
isTransparent(baseMaterial) == baseMaterial.transparent \/ baseMaterial.opacity < 100

\* new MaterialList()
NewMaterialList == [baseMaterials |-> <<>>, materials |-> <<>>]

\* createMaterial that pushes its BaseMaterial without looking for one with
\* the same baseId
createMaterialPushed(list, roughness, opacity, transparent, wireframe) ==
  [baseMaterials |-> Append(list.baseMaterials,
                            [roughness |-> roughness, opacity |-> opacity,
                             transparent |-> transparent, wireframe |-> wireframe]),
   materials |-> Append(list.materials,
                   [baseMaterial |-> Len(list.baseMaterials) + 1,
                    colors |-> <<>>, bounds |-> NewBoundingBox])]

\* MaterialList.createMaterial: the new Material is the last of materials;
\* it wraps the first BaseMaterial with the same baseId
createMaterial(list, roughness, opacity, transparent, wireframe) ==
  LET baseMaterial == BaseMaterial(roughness, opacity, transparent, wireframe)
      same == {k \in 1..Len(list.baseMaterials) :
                 baseId(list.baseMaterials[k]) = baseId(baseMaterial)}
      existingBase == IF same = {} THEN 0
                      ELSE CHOOSE k \in same : \A j \in same : k <= j
  IN [baseMaterials |-> IF existingBase # 0 THEN list.baseMaterials
                        ELSE Append(list.baseMaterials, baseMaterial),
      materials |-> Append(list.materials,
                      [baseMaterial |-> IF existingBase # 0 THEN existingBase
                                        ELSE Len(list.baseMaterials) + 1,
                       colors |-> <<>>, bounds |-> NewBoundingBox])]

\* Material.addColor on material number m
addColor(list, m, color) ==
  [list EXCEPT !.materials[m].colors = Append(@, color)]

\* the BaseMaterial the getters of material number m delegate to
\* (Material.opacity, .transparent, .isTransparent, .wireframe)
baseOf(list, m) == list.baseMaterials[list.materials[m].baseMaterial]

\* ------------------------------------------------------------------------
\* ModelReader._setVoxels and _createVoxels
\* ------------------------------------------------------------------------
SyntaxError == "SyntaxError"
TypeError == "TypeError"

\* ModelReader._setVoxels: count voxels of one color at the cursor
RECURSIVE setVoxels(_, _, _, _)
setVoxels(m, color, count, context) ==
  IF count <= 0 THEN [voxels |-> m, context |-> context]
  ELSE
    LET m1 == IF color # NoColor
              THEN setVoxel(m, context.x, context.y, context.z, Voxel(color))
              ELSE m
        x1 == context.x + 1
        x2 == IF x1 > context.maxx THEN context.minx ELSE x1
        y1 == IF x1 > context.maxx THEN context.y + 1 ELSE context.y
        y2 == IF y1 > context.maxy THEN context.miny ELSE y1
        z2 == IF y1 > context.maxy THEN context.z + 1 ELSE context.z
    IN setVoxels(m1, color, count - 1, [context EXCEPT !.x = x2, !.y = y2, !.z = z2])

\* voxelLength: the sum of the counts of the simple RLE chunks from..to
RECURSIVE sumCounts(_, _, _)
sumCounts(rleArray, from, to) ==
  IF from > to THEN 0
  ELSE IF from = to THEN rleArray[from][2]
  ELSE LET mid == (from + to) \div 2 IN
    sumCounts(rleArray, from, mid) + sumCounts(rleArray, mid + 1, to)

voxelLength(rleArray) == sumCounts(rleArray, 1, Len(rleArray))

\* one turn of the loop of _createVoxels, on one simple RLE chunk;
\* model.colors and model.materials grow when the chunk names an unknown color
createChunk(state, chunk) ==
  LET model == state.model
      id == chunk[1]
      known == id \in DOMAIN model.colors
      \* the purple 'error' color of a new or the existing error material
      newMaterial == id # <<"-">> /\ ~known /\ state.errorMaterial = 0
      em == IF newMaterial THEN Len(model.materials.materials) + 1
            ELSE state.errorMaterial
      purple == fromHex(<<"#", "F", "F", "0", "0", "F", "F">>, id, em)
      color == IF id = <<"-">> THEN NoColor
               ELSE IF known THEN model.colors[id] ELSE purple
      materials1 == IF newMaterial
                    THEN createMaterial(model.materials, 50, 100, FALSE, FALSE)
                    ELSE model.materials
      materials2 == IF id # <<"-">> /\ ~known
                    THEN addColor(materials1, em, purple)
                    ELSE materials1
      colors2 == IF id # <<"-">> /\ ~known
                 THEN Put(model.colors, id, purple) ELSE model.colors
      set == setVoxels(model.voxels, color, chunk[2], state.context)
  IN [model |-> [model EXCEPT !.materials = materials2, !.colors = colors2,
                               !.voxels = set.voxels],
      context |-> set.context,
      errorMaterial |-> IF id # <<"-">> /\ ~known THEN em ELSE state.errorMaterial]

\* the turns of the loop on the chunks from..to of rleArray, in order
RECURSIVE createChunks(_, _, _, _)
createChunks(state, rleArray, from, to) ==
  IF from > to THEN state
  ELSE IF from = to THEN createChunk(state, rleArray[from])
  ELSE LET mid == (from + to) \div 2
           first == createChunks(state, rleArray, from, mid)
       IN \* the test makes TLC evaluate the first half before the second
          IF first.errorMaterial >= state.errorMaterial
          THEN createChunks(first, rleArray, mid + 1, to)
          ELSE first

\* ModelReader._createVoxels: the model with its voxels, or the error thrown
\* _createVoxels with a test that only rejects too many voxels
createVoxelsPadded(model, voxels) ==
  LET rleArray == unpackRle(matchChunks(voxels))
      totalSize == model.size[1] * model.size[2] * model.size[3]
      context == [minx |-> 0, miny |-> 0, minz |-> 0,
                  maxx |-> model.size[1] - 1, maxy |-> model.size[2] - 1,
                  maxz |-> model.size[3] - 1, x |-> 0, y |-> 0, z |-> 0]
  IN IF voxelLength(rleArray) > totalSize
     THEN [throw |-> SyntaxError]
     ELSE [throw |-> "none", model |->
       createChunks([model |-> model, context |-> context, errorMaterial |-> 0],
                    rleArray, 1, Len(rleArray)).model]

\* ModelReader._createVoxels
createVoxels(model, voxels) ==
  LET rleArray == unpackRle(matchChunks(voxels))
      totalSize == model.size[1] * model.size[2] * model.size[3]
      context == [minx |-> 0, miny |-> 0, minz |-> 0,
                  maxx |-> model.size[1] - 1, maxy |-> model.size[2] - 1,
                  maxz |-> model.size[3] - 1, x |-> 0, y |-> 0, z |-> 0]
  IN IF voxelLength(rleArray) # totalSize
     THEN [throw |-> SyntaxError]
     ELSE [throw |-> "none", model |->
       createChunks([model |-> model, context |-> context, errorMaterial |-> 0],
                    rleArray, 1, Len(rleArray)).model]

\* ------------------------------------------------------------------------
\* ModelReader._parse
\*
\* A model text is the sequence of its lines as the regular expression
\* 'modelparts' splits them (trimmed, comments and empty lines left out):
\*   kind "block":  one of the words texture, light, model, material, voxels
\*   kind "assign": name = value; name is lower-cased and trimmed, value is
\*                  trimmed, raw is the line without white space
\*   kind "matrix": a line of the voxel matrix; raw is the line without
\*                  white space
\* Javascript values are records: Str(s), Arr(items), Null, Undefined.
\* ------------------------------------------------------------------------
Str(s) == [t |-> "string", v |-> s]
Arr(items) == [t |-> "array", v |-> items]
Null == [t |-> "null", v |-> <<>>]
False == [t |-> "false", v |-> <<>>]
Undefined == [t |-> "undefined", v |-> <<>>]

\* data[name], undefined when the object has no such property
Get(data, name) == IF name \in DOMAIN data THEN data[name] ELSE Undefined

\* !value
Falsy(value) ==
  \/ value.t \in {"null", "undefined", "false"}
  \/ value.t = "string" /\ value.v = <<>>

BlockLine(name) == [kind |-> "block", name |-> name, value |-> <<>>, raw |-> <<>>]
AssignLine(name, value, raw) == [kind |-> "assign", name |-> name, value |-> value, raw |-> raw]
MatrixLine(raw) == [kind |-> "matrix", name |-> "", value |-> <<>>, raw |-> raw]

\* the array property of modelData that the objects of a block are pushed on
BlockArray(name) ==
  CASE name = "texture" -> "textures" [] name = "light" -> "lights"
    [] name = "material" -> "materials"

\* the object a block starts with
BlockObject(name) ==
  CASE name = "texture" -> [id |-> Str(<<"<", "n", "o", "-", "n", "a", "m", "e", ">">>),
                            cube |-> False]
    [] name = "light" -> [color |-> Str(<<"#", "F", "F", "F">>)]
    [] name = "material" -> <<>>

\* the lines.forEach loop of _parse from line i on. parent is "model" for
\* modelData itself, else the name of the array whose last object is the
\* parent; inVoxels is voxelString !== null
RECURSIVE parseLines(_, _, _, _, _, _)
parseLines(lines, i, modelData, parent, inVoxels, voxelString) ==
  IF i > Len(lines)
  THEN [throw |-> "none",
        modelData |-> Put(modelData, "voxels",
                          IF inVoxels THEN Str(voxelString) ELSE Null)]
  ELSE LET line == lines[i] IN
    IF line.kind = "block" /\ line.name \in {"texture", "light", "material"} THEN
      LET array == modelData[BlockArray(line.name)] IN
        IF array.t # "array"
        THEN [throw |-> TypeError]   \* push is not a function
        ELSE parseLines(lines, i + 1,
               Put(modelData, BlockArray(line.name),
                   Arr(Append(array.v, BlockObject(line.name)))),
               BlockArray(line.name), inVoxels, voxelString)
    ELSE IF line.kind = "block" /\ line.name = "model" THEN
      parseLines(lines, i + 1, modelData, "model", inVoxels, voxelString)
    ELSE IF line.kind = "block" /\ line.name = "voxels" THEN
      parseLines(lines, i + 1, modelData, "model", TRUE, <<>>)
    ELSE IF inVoxels THEN
      parseLines(lines, i + 1, modelData, parent, TRUE, voxelString \o line.raw)
    ELSE IF line.kind = "matrix" THEN
      [throw |-> SyntaxError]        \* Invalid definition: no '='
    ELSE IF parent = "model" THEN
      parseLines(lines, i + 1, Put(modelData, line.name, Str(line.value)),
                 parent, inVoxels, voxelString)
    ELSE
      LET array == modelData[parent].v
          last == array[Len(array)]
      IN parseLines(lines, i + 1,
           Put(modelData, parent,
               Arr([array EXCEPT ![Len(array)] = Put(last, line.name, Str(line.value))])),
           parent, inVoxels, voxelString)

\* ModelReader._parse
parse(lines) ==
  parseLines(lines, 1,
             [lights |-> Arr(<<>>), textures |-> Arr(<<>>), materials |-> Arr(<<>>)],
             "model", FALSE, <<>>)

\* ------------------------------------------------------------------------
\* ModelReader._validateModel
\* ------------------------------------------------------------------------
ModelMandatory == {"size", "materials", "textures", "lights", "voxels"}
ModelOptional == {"name", "shape", "scale", "rotation", "position", "origin",
                  "autoresize", "flatten", "clamp", "skip", "tile", "ao", "aosides",
                  "aosamples", "shell", "wireframe"}
LightMandatory == {"color"}
LightOptional == {"direction", "position", "distance", "size", "detail"}
TextureMandatory == {"id", "image"}
TextureOptional == {"cube"}
MaterialMandatory == {"colors"}
MaterialOptional == {"type", "lighting", "fade", "roughness", "metalness", "emissive",
                     "fog", "opacity", "alphatest", "transparent", "deform", "warp",
                     "scatter", "flatten", "clamp", "skip", "ao", "lights", "wireframe",
                     "side", "shell", "map", "normalmap", "roughnessmap",
                     "metalnessmap", "emissivemap", "matcap", "maptransform"}

\* ModelReader._validateProperties: TRUE when it returns, FALSE when it
\* throws its SyntaxError
validateProperties(data, mandatory, optional) ==
  /\ \A propertyName \in mandatory : ~Falsy(Get(data, propertyName))
  /\ \A propertyName \in DOMAIN data : propertyName \in mandatory \cup optional

\* ModelReader._validateLight
validateLight(lightData) ==
  /\ validateProperties(lightData, LightMandatory, LightOptional)
  /\ ~(~Falsy(Get(lightData, "direction")) /\ ~Falsy(Get(lightData, "position")))
  /\ ~(~Falsy(Get(lightData, "direction")) /\ ~Falsy(Get(lightData, "distance")))
  /\ ~(Falsy(Get(lightData, "position"))
        /\ (~Falsy(Get(lightData, "size")) \/ ~Falsy(Get(lightData, "detail"))))

\* ModelReader._validateModel: the name of the error it throws, or "none"
validateModel(modelData) ==
  IF ~validateProperties(modelData, ModelMandatory, ModelOptional) THEN SyntaxError
  ELSE IF modelData["lights"].t # "array" THEN TypeError   \* forEach is not a function
  ELSE IF \E k \in 1..Len(modelData["lights"].v) :
            ~validateLight(modelData["lights"].v[k]) THEN SyntaxError
  ELSE IF modelData["textures"].t # "array" THEN TypeError
  ELSE IF \E k \in 1..Len(modelData["textures"].v) :
            ~validateProperties(modelData["textures"].v[k],
                                TextureMandatory, TextureOptional) THEN SyntaxError
  ELSE IF modelData["materials"].t # "array" THEN TypeError
  ELSE IF \E k \in 1..Len(modelData["materials"].v) :
            ~validateProperties(modelData["materials"].v[k],
                                MaterialMandatory, MaterialOptional) THEN SyntaxError
  ELSE "none"

\* ------------------------------------------------------------------------
\* ModelReader._createModel
\* The texts modelled set, of the properties that _createModel interprets,
\* size in the model block, color in a light block, and colors, roughness,
\* opacity, transparent and wireframe in a material block.
\* ------------------------------------------------------------------------

\* String.prototype.split with a separator that matches one or more
\* characters of seps (seps one character: every occurrence separates, so
\* the caller passes runs = FALSE)
RECURSIVE splitFrom(_, _, _, _, _)
splitFrom(s, i, seps, runs, current) ==
  IF i > Len(s) THEN <<current>>
  ELSE IF s[i] \in seps THEN
    IF runs /\ i > 1 /\ s[i - 1] \in seps
    THEN splitFrom(s, i + 1, seps, runs, current)
    ELSE <<current>> \o splitFrom(s, i + 1, seps, runs, <<>>)
  ELSE splitFrom(s, i + 1, seps, runs, Append(current, s[i]))

split(s, seps, runs) == splitFrom(s, 1, seps, runs, <<>>)

\* parseFloat of a string of digits with an optional fraction, in hundredths
\* (two decimals are kept); nan when the string starts with neither
parseFloat(s) ==
  LET e == RunEnd(s, 1, Digit)
      hasFraction == e <= Len(s) /\ s[e] = "."
      f == IF hasFraction THEN RunEnd(s, e + 1, Digit) ELSE e
      fraction == IF hasFraction THEN SubSeq(s, e + 1, f - 1) ELSE <<>>
      hundredths == IF fraction = <<>> THEN 0
                    ELSE IF Len(fraction) = 1 THEN 10 * DigitValue(fraction[1])
                    ELSE 10 * DigitValue(fraction[1]) + DigitValue(fraction[2])
  IN IF e = 1 /\ fraction = <<>>
     THEN [nan |-> TRUE, v |-> 0]
     ELSE [nan |-> FALSE, v |-> 100 * parseInt(SubSeq(s, 1, e - 1)) + hundredths]

\* ModelReader._parseXYZInt for a mandatory value, allowUniform true:
\* <<x, y, z>>, or the error thrown
parseXYZInt(value) ==
  LET parts == split(value, {" ", "/"}, TRUE)
      xyz == IF Len(parts) = 1 THEN <<parts[1], parts[1], parts[1]>> ELSE parts
  IN IF Len(xyz) # 3 THEN [throw |-> SyntaxError]
     ELSE IF \E k \in 1..3 : parseFloat(xyz[k]).nan THEN [throw |-> SyntaxError]
     ELSE [throw |-> "none",
           xyz |-> [k \in 1..3 |-> parseFloat(xyz[k]).v \div 100]]

\* ModelReader._parseXYZFloat: <<x, y, z>> in hundredths, or the error
\* thrown; defaultValue is never empty for the settings of the model
parseXYZFloat(value, defaultValue, allowUniform) ==
  LET parts == split(IF Falsy(value) THEN defaultValue ELSE value.v, {" ", "/"}, TRUE)
      xyz == IF Len(parts) = 1 /\ allowUniform
             THEN <<parts[1], parts[1], parts[1]>> ELSE parts
  IN IF Len(xyz) # 3 THEN [throw |-> SyntaxError]
     ELSE IF \E k \in 1..3 : parseFloat(xyz[k]).nan THEN [throw |-> SyntaxError]
     ELSE [throw |-> "none", xyz |-> [k \in 1..3 |-> parseFloat(xyz[k]).v]]

\* String.prototype.includes
Includes(s, sub) ==
  \E i \in 1..(Len(s) - Len(sub) + 1) : SubSeq(s, i, i + Len(sub) - 1) = sub

\* the properties of a planar object in the order of Planar.toString, each
\* with the string Planar.parse looks for and the string toString writes
PlanarSides ==
  <<[name |-> "nx", find |-> <<"-", "x">>, write |-> <<"-", "x">>],
    [name |-> "x", find |-> <<" ", "x">>, write |-> <<"x">>],
    [name |-> "px", find |-> <<"+", "x">>, write |-> <<"+", "x">>],
    [name |-> "ny", find |-> <<"-", "y">>, write |-> <<"-", "y">>],
    [name |-> "y", find |-> <<" ", "y">>, write |-> <<"y">>],
    [name |-> "py", find |-> <<"+", "y">>, write |-> <<"+", "y">>],
    [name |-> "nz", find |-> <<"-", "z">>, write |-> <<"-", "z">>],
    [name |-> "z", find |-> <<" ", "z">>, write |-> <<"z">>],
    [name |-> "pz", find |-> <<"+", "z">>, write |-> <<"+", "z">>]>>

\* the white space \s matches, as far as the model has it
WhiteSpaceChars == {" ", "\t", "\n"}

\* String.prototype.toLowerCase on the letters a planar expression can hold
LowerChar(c) ==
  CASE c = "X" -> "x" [] c = "Y" -> "y" [] c = "Z" -> "z"
    [] c = "N" -> "n" [] c = "O" -> "o" [] c = "E" -> "e"
    [] OTHER -> c

toLowerCase(s) == [i \in 1..Len(s) |-> LowerChar(s[i])]

\* the value of a setting, or the default the model has without it
ValueOr(value, default) == IF Falsy(value) THEN default ELSE value.v

\* the words none, -x, x, +x, ... of the regular expression of Planar.parse
PlanarWords ==
  {<<"n", "o", "n", "e">>} \cup {PlanarSides[k].write : k \in 1..Len(PlanarSides)}

\* the runs of other characters between the white space of a string
WordsOf(padded) ==
  {w \in {split(padded, WhiteSpaceChars, TRUE)[k] :
            k \in 1..Len(split(padded, WhiteSpaceChars, TRUE))} : w # <<>>}

\* the test of /^(?!$)(\s+(?:none|-x|x|\+x|-y|y|\+y|-z|z|\+z|\s))+\s*$/ on a
\* string that starts with a space and is longer than that space: every
\* word stands after white space and is one of PlanarWords
PlanarExpression(padded) == WordsOf(padded) \subseteq PlanarWords

\* Planar.parse after value = ' ' + (value || '').toLowerCase(): the set of
\* the properties that are true, or the error thrown
Planar_parsePadded(padded) ==
  IF padded # <<" ">> /\ ~PlanarExpression(padded)
  THEN [throw |-> SyntaxError]
  ELSE [throw |-> "none",
        planar |-> {PlanarSides[k].name : k \in
                      {j \in 1..Len(PlanarSides) : Includes(padded, PlanarSides[j].find)}}]

\* Planar.parse
Planar_parse(value) == Planar_parsePadded(<<" ">> \o toLowerCase(ValueOr(value, <<>>)))

\* Planar.toString that writes no space before a word
RECURSIVE Planar_toStringFromGlued(_, _)
Planar_toStringFromGlued(planar, k) ==
  IF k > Len(PlanarSides) THEN <<>>
  ELSE (IF PlanarSides[k].name \in planar THEN PlanarSides[k].write ELSE <<>>)
       \o Planar_toStringFromGlued(planar, k + 1)

\* Planar.toString
RECURSIVE Planar_toStringFrom(_, _)
Planar_toStringFrom(planar, k) ==
  IF k > Len(PlanarSides) THEN <<>>
  ELSE (IF PlanarSides[k].name \in planar THEN <<" ">> \o PlanarSides[k].write ELSE <<>>)
       \o Planar_toStringFrom(planar, k + 1)

Planar_toString(planar) ==
  IF planar = {} THEN <<>> ELSE Tail(Planar_toStringFrom(planar, 1))

\* the setter of Model.tile: only the edges stay named
setTile(planar) ==
  (planar \cup (IF "x" \in planar THEN {"nx", "px"} ELSE {})
          \cup (IF "y" \in planar THEN {"ny", "py"} ELSE {})
          \cup (IF "z" \in planar THEN {"nz", "pz"} ELSE {})) \ {"x", "y", "z"}

\* the setter of Model.shape
ShapeNames ==
  {<<"b", "o", "x">>, <<"s", "p", "h", "e", "r", "e">>,
   <<"c", "y", "l", "i", "n", "d", "e", "r", "-", "x">>,
   <<"c", "y", "l", "i", "n", "d", "e", "r", "-", "y">>,
   <<"c", "y", "l", "i", "n", "d", "e", "r", "-", "z">>}

\* ModelReader._parseAo for numbers parseFloat understands: undefined, or
\* the color, maxDistance and strength in hundredths, and the angle
parseAo(oaData) ==
  IF Falsy(oaData) THEN [throw |-> "none", ao |-> Undefined]
  ELSE
    LET data == IF oaData.v[1] = "#" THEN oaData.v
                ELSE <<"#", "0", "0", "0", " ">> \o oaData.v
        parts == split(data, {" "}, FALSE)
        number(k, default) ==
          IF k > Len(parts) \/ parts[k] = <<>> THEN default ELSE parseFloat(parts[k]).v
        angle == (number(4, 7000) + 50) \div 100      \* Math.round
    IN IF ~IsHexColor(toUpperCase(parts[1])) THEN [throw |-> SyntaxError]
       ELSE [throw |-> "none",
             ao |-> [color |-> fromHex(parts[1], <<>>, 0).color,
                     maxDistance |-> number(2, 100),
                     strength |-> number(3, 100),
                     angle |-> Max(0, Min(90, angle))]]

\* the settings of the model block that ModelReader._createModel sets on
\* the Model, or the error thrown
modelSettingsFrom(modelData, scale, rotation, position, shape, planars, ao) ==
  IF \/ scale.throw # "none" \/ rotation.throw # "none" \/ position.throw # "none"
     \/ shape \notin ShapeNames
     \/ \E n \in DOMAIN planars : planars[n].throw # "none"
     \/ ao.throw # "none"
  THEN [throw |-> SyntaxError]
  ELSE [throw |-> "none", settings |->
         [scale |-> scale.xyz, rotation |-> rotation.xyz, position |-> position.xyz,
          autoResize |-> Get(modelData, "autoresize") = Str(<<"t", "r", "u", "e">>),
          shape |-> shape,
          wireframe |-> Get(modelData, "wireframe") = Str(<<"t", "r", "u", "e">>),
          origin |-> planars["origin"].planar,
          flatten |-> planars["flatten"].planar,
          clamp |-> planars["clamp"].planar,
          skip |-> planars["skip"].planar,
          tile |-> setTile(planars["tile"].planar),
          ao |-> ao.ao,
          aoSides |-> planars["aosides"].planar,
          aoSamples |-> IF Falsy(Get(modelData, "aosamples")) THEN 50
                        ELSE parseInt(Get(modelData, "aosamples").v)]]

modelSettings(modelData) ==
  modelSettingsFrom(modelData,
    parseXYZFloat(Get(modelData, "scale"), <<"1">>, TRUE),
    parseXYZFloat(Get(modelData, "rotation"), <<"0", " ", "0", " ", "0">>, FALSE),
    parseXYZFloat(Get(modelData, "position"), <<"0", " ", "0", " ", "0">>, FALSE),
    ValueOr(Get(modelData, "shape"), <<"b", "o", "x">>),
    [n \in {"origin", "flatten", "clamp", "skip", "tile", "aosides"} |->
       Planar_parse(Get(modelData, n))],
    parseAo(Get(modelData, "ao")))

\* the test /^[A-Z][a-z]*$/ of a color id
IsColorId(id) ==
  /\ Len(id) >= 1 /\ id[1] \in Upper
  /\ \A k \in 2..Len(id) : id[k] \in Lower

True == <<"t", "r", "u", "e">>

\* the colors.forEach loop of _createMaterial from color i on, for the
\* material created last
RECURSIVE createColors(_, _, _)
createColors(list, colors, i) ==
  IF i > Len(colors) THEN [throw |-> "none", materials |-> list]
  ELSE
    LET parts == split(colors[i], {":"}, FALSE)
        named == split(parts[1], {"("}, FALSE)
        colorId == named[1]
        m == Len(list.materials)
    IN IF Len(parts) < 2 \/ ~IsHexColor(toUpperCase(parts[2]))
       THEN [throw |-> SyntaxError]       \* Color.fromHex
       ELSE IF ~IsColorId(colorId) THEN [throw |-> SyntaxError]
       ELSE createColors(addColor(list, m, fromHex(parts[2], colorId, m)), colors, i + 1)

\* ModelReader._createMaterial
createMaterialFromData(list, materialData) ==
  LET roughness == IF Falsy(Get(materialData, "roughness")) THEN 100
                   ELSE parseFloat(materialData["roughness"].v).v
      opacity == IF Falsy(Get(materialData, "opacity")) THEN 100
                 ELSE parseFloat(materialData["opacity"].v).v
      transparent == Get(materialData, "transparent") = Str(True)
      wireframe == Get(materialData, "wireframe") = Str(True)
      colors == SelectSeq(split(materialData["colors"].v, {" "}, FALSE),
                          LAMBDA x : x # <<>>)
  IN createColors(createMaterial(list, roughness, opacity, transparent, wireframe),
                  colors, 1)

\* the modelData.materials.forEach loop of _createModel from material i on
RECURSIVE createMaterials(_, _, _)
createMaterialsNext(created, materials, i) ==
  IF created.throw # "none" THEN created
  ELSE createMaterials(created.materials, materials, i + 1)

createMaterials(list, materials, i) ==
  IF i > Len(materials) THEN [throw |-> "none", materials |-> list]
  ELSE createMaterialsNext(createMaterialFromData(list, materials[i]), materials, i)

\* model.colors: the colors of all materials by id, a later color replacing
\* an earlier one with the same id
RECURSIVE collectColors(_, _, _, _)
collectColors(list, m, c, colors) ==
  IF m > Len(list.materials) THEN colors
  ELSE IF c > Len(list.materials[m].colors) THEN collectColors(list, m + 1, 1, colors)
  ELSE LET color == list.materials[m].colors[c] IN
    collectColors(list, m, c + 1, Put(colors, color.id, color))

\* ModelReader._createLight: TRUE unless Color.fromHex throws
createLight(lightData) ==
  LET color == IF lightData["color"].v[1] = "#" THEN lightData["color"].v
               ELSE <<"#", "F", "F", "F", " ">> \o lightData["color"].v
  IN IsHexColor(toUpperCase(split(color, {" "}, FALSE)[1]))

\* ModelReader._createModel of validated model data: the Model, or the
\* error thrown
createModelFrom(modelData, size, read, lights, created) ==
  IF size.throw # "none" THEN [throw |-> SyntaxError]
  ELSE IF read.throw # "none" THEN [throw |-> read.throw]
  ELSE IF \E k \in 1..Len(lights) : ~createLight(lights[k])
  THEN [throw |-> SyntaxError]
  ELSE IF created.throw # "none" THEN [throw |-> created.throw]
  ELSE createVoxels([size |-> size.xyz,
                     settings |-> read.settings,
                     materials |-> created.materials,
                     colors |-> collectColors(created.materials, 1, 1, <<>>),
                     voxels |-> NewVoxelMatrix],
                    modelData["voxels"].v)

\* visible lights get a basic material with one white color
lightMaterial(lights) ==
  IF \E k \in 1..Len(lights) : ~Falsy(Get(lights[k], "size"))
  THEN addColor(createMaterial(NewMaterialList, 100, 100, FALSE, FALSE), 1,
                fromHex(<<"#", "F", "F", "F", "F", "F", "F">>, <<>>, 1))
  ELSE NewMaterialList

createModel(modelData) ==
  createModelFrom(modelData,
                  parseXYZInt(modelData["size"].v),
                  modelSettings(modelData),
                  modelData["lights"].v,
                  createMaterials(lightMaterial(modelData["lights"].v),
                                  modelData["materials"].v, 1))

readFromString(lines) ==
  LET parsed == parse(lines) IN
    IF parsed.throw # "none" THEN [throw |-> parsed.throw]
    ELSE IF validateModel(parsed.modelData) # "none"
    THEN [throw |-> validateModel(parsed.modelData)]
    ELSE createModel(parsed.modelData)

\* ------------------------------------------------------------------------
\* ModelWriter
\* The models written have no textures, no lights and no color without an
\* id, and have the default value for every setting that is not modelled.
\* ------------------------------------------------------------------------

\* An item of the RLE queue, [value, count, key] in the code: a leaf holds a
\* chunk string such as 13A, a group holds the items of a repeated pattern.
\* The key of the code (the chunk string, or JSON.stringify of the item) is
\* the same for two items exactly when they are the same item here.
Leaf(chunk) == [leaf |-> TRUE, chunk |-> chunk, sub |-> <<>>, n |-> 1]
Group(sub, n) == [leaf |-> FALSE, chunk |-> <<>>, sub |-> sub, n |-> n]

\* a check for a repeat that compares the first chunk of the pattern only
RepeatingLengthOfFirst(queue, k, compressionWindow) ==
  LET repeats == {j \in 1..(compressionWindow - 1) :
                    /\ k + 2 * j <= Len(queue)
                    /\ queue[k + 1] = queue[k + j + 1]}
  IN IF repeats = {} THEN 0 ELSE CHOOSE j \in repeats : \A h \in repeats : j <= h

\* the first check of _addRleChunk at index k (from 0): the smallest pattern
\* length j that repeats at k, 0 when there is none
RepeatingLength(queue, k, compressionWindow) ==
  LET repeats == {j \in 1..(compressionWindow - 1) :
                    /\ k + 2 * j <= Len(queue)
                    /\ \A i \in 0..(j - 1) : queue[k + i + 1] = queue[k + i + j + 1]}
  IN IF repeats = {} THEN 0 ELSE CHOOSE j \in repeats : \A h \in repeats : j <= h

\* the for loop over k of _addRleChunk
RECURSIVE rleLoop(_, _, _)
rleLoop(queue, k, compressionWindow) ==
  IF k > Len(queue) - 2 THEN queue
  ELSE
    LET item == queue[k + 1]
        j == RepeatingLength(queue, k, compressionWindow)
    IN IF j > 0 THEN
         \* combine the two occurrences into one group; k = queue.length
         SubSeq(queue, 1, k) \o <<Group(SubSeq(queue, k + 1, k + j), 2)>>
           \o SubSeq(queue, k + 2 * j + 1, Len(queue))
       ELSE IF /\ ~item.leaf
               /\ Len(queue) > k + Len(item.sub)
               /\ \A i \in 0..(Len(item.sub) - 1) : item.sub[i + 1] = queue[k + 1 + i + 1]
       THEN
         \* the pattern repeats once more; k = queue.length
         SubSeq(queue, 1, k) \o <<Group(item.sub, item.n + 1)>>
           \o SubSeq(queue, k + 1 + Len(item.sub) + 1, Len(queue))
       ELSE rleLoop(queue, k + 1, compressionWindow)

\* ModelWriter._addRleChunk; color is a Color, NoColor for null, or
\* Undefined before the first voxel
addRleChunk(queue, color, count, compressionWindow) ==
  IF count = 0 THEN queue
  ELSE
    LET chunk == (IF count > 1 THEN toString(count) ELSE <<>>)
                   \o (IF color # NoColor THEN color.id ELSE <<"-">>)
        pushed == Append(queue, Leaf(chunk))
    IN rleLoop(pushed, Max(0, Len(pushed) - compressionWindow * 2), compressionWindow)

\* ModelWriter._rleToString
RECURSIVE rleToString(_)
RECURSIVE rleItemsToString(_)
rleItemsToString(items) ==
  IF items = <<>> THEN <<>>
  ELSE rleToString(items[1]) \o rleItemsToString(Tail(items))

rleToString(chunk) ==
  (IF chunk.n = 1 THEN <<>> ELSE toString(chunk.n))
    \o (IF chunk.leaf THEN chunk.chunk
        ELSE <<"(">> \o rleItemsToString(chunk.sub) \o <<")">>)

\* a traversal of the bounding box with y fastest, then x, then z
BoundaryCoordinatesYFirst(b) ==
  LET sx == b.maxX - b.minX + 1
      sy == b.maxY - b.minY + 1
      sz == b.maxZ - b.minZ + 1
  IN IF b.minX > b.maxX \/ b.minY > b.maxY \/ b.minZ > b.maxZ THEN <<>>
     ELSE [n \in 1..(sx * sy * sz) |->
             <<b.minX + (((n - 1) \div sy) % sx),
               b.minY + ((n - 1) % sy),
               b.minZ + ((n - 1) \div (sx * sy))>>]

\* VoxelMatrix.forEachInBoundary: the coordinates of the bounding box in the
\* order visited, x fastest, then y, then z
BoundaryCoordinates(b) ==
  LET sx == b.maxX - b.minX + 1
      sy == b.maxY - b.minY + 1
      sz == b.maxZ - b.minZ + 1
  IN IF b.minX > b.maxX \/ b.minY > b.maxY \/ b.minZ > b.maxZ THEN <<>>
     ELSE [n \in 1..(sx * sy * sz) |->
             <<b.minX + ((n - 1) % sx),
               b.minY + (((n - 1) \div sx) % sy),
               b.minZ + ((n - 1) \div (sx * sy))>>]

\* the color of the voxel at a coordinate, NoColor for an empty cell
ColorAt(m, c) ==
  IF c \in DOMAIN m.cells THEN m.cells[c].color ELSE NoColor

\* the callback of _serializeVoxelsRLE over the cells from cell i on
RECURSIVE rleCells(_, _, _, _, _, _, _)
rleCells(m, cells, i, queue, lastColor, count, compressionWindow) ==
  IF i > Len(cells)
  THEN addRleChunk(queue, lastColor, count, compressionWindow)
  ELSE LET color == ColorAt(m, cells[i]) IN
    IF color = lastColor
    THEN rleCells(m, cells, i + 1, queue, lastColor, count + 1, compressionWindow)
    ELSE rleCells(m, cells, i + 1,
                  addRleChunk(queue, lastColor, count, compressionWindow),
                  color, 1, compressionWindow)

\* ModelWriter._serializeVoxelsRLE: the lines after 'voxels ='
serializeVoxelsRLE(m, compressionWindow) ==
  LET queue == rleCells(m, BoundaryCoordinates(m.bounds), 1, <<>>,
                        [undefined |-> TRUE], 0, compressionWindow)
      result == rleItemsToString(queue)
  IN IF result = <<>> THEN <<>> ELSE <<MatrixLine(result)>>

\* the ids of the cells of one z layer, as _serializeVoxels writes them
\* (the rows are separated by a space, which _parse removes again)
RECURSIVE layerString(_, _, _)
layerString(m, cells, i) ==
  IF i > Len(cells) THEN <<>>
  ELSE (IF ColorAt(m, cells[i]) # NoColor THEN ColorAt(m, cells[i]).id ELSE <<"-">>)
         \o layerString(m, cells, i + 1)

\* ModelWriter._serializeVoxels with repeat = 1: one line for every z layer
serializeVoxels(m) ==
  LET b == m.bounds IN
    IF b.minZ > b.maxZ THEN <<>>
    ELSE [z \in 1..(b.maxZ - b.minZ + 1) |->
            MatrixLine(layerString(m,
              BoundaryCoordinates([b EXCEPT !.minZ = b.minZ + z - 1,
                                            !.maxZ = b.minZ + z - 1]), 1))]

\* the characters of the property names that are written
NameChars ==
  [size |-> <<"s", "i", "z", "e">>,
   lighting |-> <<"l", "i", "g", "h", "t", "i", "n", "g">>,
   wireframe |-> <<"w", "i", "r", "e", "f", "r", "a", "m", "e">>,
   roughness |-> <<"r", "o", "u", "g", "h", "n", "e", "s", "s">>,
   opacity |-> <<"o", "p", "a", "c", "i", "t", "y">>,
   transparent |-> <<"t", "r", "a", "n", "s", "p", "a", "r", "e", "n", "t">>,
   colors |-> <<"c", "o", "l", "o", "r", "s">>,
   lights |-> <<"l", "i", "g", "h", "t", "s">>,
   materials |-> <<"m", "a", "t", "e", "r", "i", "a", "l", "s">>,
   textures |-> <<"t", "e", "x", "t", "u", "r", "e", "s">>,
   unknown |-> <<"u", "n", "k", "n", "o", "w", "n">>,
   scale |-> <<"s", "c", "a", "l", "e">>,
   shape |-> <<"s", "h", "a", "p", "e">>,
   rotation |-> <<"r", "o", "t", "a", "t", "i", "o", "n">>,
   position |-> <<"p", "o", "s", "i", "t", "i", "o", "n">>,
   origin |-> <<"o", "r", "i", "g", "i", "n">>,
   autoresize |-> <<"a", "u", "t", "o", "r", "e", "s", "i", "z", "e">>,
   flatten |-> <<"f", "l", "a", "t", "t", "e", "n">>,
   clamp |-> <<"c", "l", "a", "m", "p">>,
   skip |-> <<"s", "k", "i", "p">>,
   tile |-> <<"t", "i", "l", "e">>,
   ao |-> <<"a", "o">>,
   aosides |-> <<"a", "o", "s", "i", "d", "e", "s">>,
   aosamples |-> <<"a", "o", "s", "a", "m", "p", "l", "e", "s">>]

\* the line 'name = value' as _parse receives it
Setting(name, value) ==
  AssignLine(name, value,
             NameChars[name] \o <<"=">> \o SelectSeq(value, LAMBDA c : c # " "))

\* the template literal of a number held in hundredths: 50 is 0.5
numberToString(v) ==
  toString(v \div 100)
    \o (IF v % 100 = 0 THEN <<>>
        ELSE IF v % 10 = 0 THEN <<".", DigitChar((v % 100) \div 10)>>
        ELSE <<".", DigitChar((v % 100) \div 10), DigitChar(v % 10)>>)

\* ' id:color' for every color of a material, trimmed
RECURSIVE colorsToString(_, _)
colorsToString(colors, i) ==
  IF i > Len(colors) THEN <<>>
  ELSE (IF i > 1 THEN <<" ">> ELSE <<>>)
         \o colors[i].id \o <<":">> \o colors[i].color
         \o colorsToString(colors, i + 1)

\* ModelWriter._serializeMaterials from material m on
RECURSIVE serializeMaterials(_, _)
serializeMaterials(list, m) ==
  IF m > Len(list.materials) THEN <<>>
  ELSE IF list.materials[m].colors = <<>> THEN serializeMaterials(list, m + 1)
  ELSE
    LET base == baseOf(list, m) IN
      <<BlockLine("material"),
        \* material.lighting !== SVOX.fLAT holds always
        Setting("lighting", <<"f", "l", "a", "t">>)>>
      \o (IF base.wireframe THEN <<Setting("wireframe", True)>> ELSE <<>>)
      \o (IF base.roughness # 100
          THEN <<Setting("roughness", numberToString(base.roughness))>> ELSE <<>>)
      \o (IF base.opacity # 100
          THEN <<Setting("opacity", numberToString(base.opacity))>> ELSE <<>>)
      \o (IF base.transparent THEN <<Setting("transparent", True)>> ELSE <<>>)
      \o <<Setting("colors", colorsToString(list.materials[m].colors, 1))>>
      \o serializeMaterials(list, m + 1)

\* 'x y z' of three numbers in hundredths
xyzToString(xyz) ==
  numberToString(xyz[1]) \o <<" ">> \o numberToString(xyz[2]) \o <<" ">>
    \o numberToString(xyz[3])

\* the lines of writeToString between the size and the materials, for a
\* model without a shell and repeat = 1. The lines of aosides and aosamples
\* are written when model.asSides and model.asSamples are set, and those
\* are properties that no Model has.
serializeSettings(model) ==
  LET set == model.settings
      planar(name, value) ==
        IF Planar_toString(value) # <<>>
        THEN <<Setting(name, Planar_toString(value))>> ELSE <<>>
      asSides == Get(set, "asSides")
      asSamples == Get(set, "asSamples")
  IN (IF set.shape # <<"b", "o", "x">> THEN <<Setting("shape", set.shape)>> ELSE <<>>)
     \o (IF set.scale # <<100, 100, 100>>
         THEN <<Setting("scale",
                  IF set.scale[2] = set.scale[1] /\ set.scale[3] = set.scale[1]
                  THEN numberToString(set.scale[1]) ELSE xyzToString(set.scale))>>
         ELSE <<>>)
     \o (IF set.autoResize THEN <<Setting("autoresize", <<"t", "r", "u", "e">>)>> ELSE <<>>)
     \o (IF set.rotation # <<0, 0, 0>>
         THEN <<Setting("rotation", xyzToString(set.rotation))>> ELSE <<>>)
     \o (IF set.position # <<0, 0, 0>>
         THEN <<Setting("position", xyzToString(set.position))>> ELSE <<>>)
     \o planar("origin", set.origin)
     \o planar("flatten", set.flatten)
     \o planar("clamp", set.clamp)
     \o planar("skip", set.skip)
     \o planar("tile", set.tile)
     \o (IF set.ao # Undefined
         THEN <<Setting("ao",
                  (IF set.ao.color # <<"#", "0", "0", "0">>
                   THEN set.ao.color \o <<" ">> ELSE <<>>)
                  \o numberToString(set.ao.maxDistance) \o <<" ">>
                  \o numberToString(set.ao.strength)
                  \o (IF set.ao.angle # 70 THEN <<" ">> \o toString(set.ao.angle)
                      ELSE <<>>))>>
         ELSE <<>>)
     \o (IF ~Falsy(asSides) THEN <<Setting("aosides", Planar_toString(set.aoSides))>>
         ELSE <<>>)
     \o (IF ~Falsy(asSamples) THEN <<Setting("aosamples", toString(set.aoSamples))>>
         ELSE <<>>)
     \o (IF set.wireframe THEN <<Setting("wireframe", <<"t", "r", "u", "e">>)>> ELSE <<>>)

\* ModelWriter.writeToString with repeat = 1: the lines of the text written.
\* compressed chooses _serializeVoxelsRLE, which writeToString calls with a
\* compression window of 100
writeToStringWindow(model, compressed, compressionWindow) ==
  LET voxels == VoxelMatrixPrepareForWrite(model.voxels)   \* model.prepareForWrite
      size == BoundingBoxSize(voxels.bounds)
  IN <<BlockLine("model"),
       IF size[2] = size[1] /\ size[3] = size[1]
       THEN Setting("size", toString(size[1]))
       ELSE Setting("size", toString(size[1]) \o <<" ">> \o toString(size[2])
                              \o <<" ">> \o toString(size[3]))>>
     \o serializeSettings(model)
     \o serializeMaterials(model.materials, 1)
     \o <<BlockLine("voxels")>>
     \o (IF compressed THEN serializeVoxelsRLE(voxels, compressionWindow)
         ELSE serializeVoxels(voxels))

CompressionWindow == 100

writeToString(model, compressed) ==
  writeToStringWindow(model, compressed, CompressionWindow)

\* ------------------------------------------------------------------------
\* Reading a text, writing the model and reading it again
\* ------------------------------------------------------------------------
MaxLen == 4       \* the longest voxel string typed
MaxX == 2         \* the largest declared size, per axis
MaxY == 2
MaxZ == 1

\* the characters a voxel string is typed from
VoxelChars == {"A", "-", "(", ")", "0", "2"}

VoxelStrings == UNION {[1..n -> VoxelChars] : n \in 0..MaxLen}

DeclaredSizes == {<<x, y, z>> : x \in 1..MaxX, y \in 1..MaxY, z \in 1..MaxZ}

\* the text of a model of the declared size with one material, its color A
\* and the voxel string:
\*   model / size = x y z / material / colors = A:#f80 / voxels / string
ModelText(size, voxelString) ==
  <<BlockLine("model"),
    Setting("size", toString(size[1]) \o <<" ">> \o toString(size[2])
                      \o <<" ">> \o toString(size[3])),
    BlockLine("material"),
    Setting("colors", <<"A", ":", "#", "f", "8", "0">>),
    BlockLine("voxels")>>
  \o (IF voxelString = <<>> THEN <<>> ELSE <<MatrixLine(voxelString)>>)

\* the voxel string of a text: what _parse collects after the voxels block
RECURSIVE rawAfter(_, _)
rawAfter(lines, i) ==
  IF i > Len(lines) THEN <<>> ELSE lines[i].raw \o rawAfter(lines, i + 1)

VoxelStringOf(lines) ==
  LET at == {i \in 1..Len(lines) : lines[i] = BlockLine("voxels")}
  IN IF at = {} THEN <<>>
     ELSE rawAfter(lines, 1 + CHOOSE i \in at : \A j \in at : j <= i)

\* a text is to be read
TextGiven(texts) ==
  /\ text \in texts
  /\ firstRead = NotRun
  /\ written = NotRun
  /\ reread = NotRun

\* no grid is being serialized
WriteIdle == grid = NewVoxelMatrix /\ serialized = NotRun

\* a page without svox components
SvoxIdle ==
  /\ hardwareConcurrency = 1
  /\ elements = <<>>
  /\ WORKERPOOL = Null
  /\ inbox = <<>>
  /\ outbox = <<>>
  /\ posted = <<>>
  /\ callbacks = <<>>

\* no function of the library is called directly
CallIdle == receiver = <<>> /\ outcome = NotRun

\* no model is being rendered
RenderIdle ==
  /\ scene = [materials |-> NewMaterialList, voxels |-> NewVoxelMatrix,
              vertices |-> <<>>, objects |-> 0]
  /\ facesCreated = NotRun

TextInit ==
  /\ TextGiven({ModelText(size, voxelString) :
                  size \in DeclaredSizes, voxelString \in VoxelStrings})
  /\ WriteIdle /\ CallIdle /\ SvoxIdle /\ RenderIdle

\* firstRead = ModelReader.readFromString(text)
Read ==
  /\ firstRead = NotRun
  /\ firstRead' = readFromString(text)
  /\ UNCHANGED <<text, written, reread, writeVars, svoxVars, callVars, renderVars>>

\* written = ModelWriter.writeToString(firstRead, compressed)
Write ==
  /\ firstRead.throw = "none"
  /\ written = NotRun
  /\ \E compressed \in BOOLEAN :
       written' = [throw |-> "none", compressed |-> compressed,
                   lines |-> writeToString(firstRead.model, compressed)]
  /\ UNCHANGED <<text, firstRead, reread, writeVars, svoxVars, callVars, renderVars>>

\* reread = ModelReader.readFromString(written)
ReadAgain ==
  /\ written # NotRun
  /\ reread = NotRun
  /\ reread' = readFromString(written.lines)
  /\ UNCHANGED <<text, firstRead, written, writeVars, svoxVars, callVars, renderVars>>

TextNext == Read \/ Write \/ ReadAgain

SpecText == TextInit /\ [][TextNext]_vars

\* ------------------------------------------------------------------------
\* The voxel strings as the grammar reads them
\*   sequence ::= item*          item ::= [count] unit
\*   unit ::= id | '-' | '(' sequence ')'
\*   id ::= [A-Z][a-z]*         count ::= [0-9]+
\* ------------------------------------------------------------------------

\* the cells of the sequence that starts at position i of s: ok is FALSE when
\* the string is not well formed, next is the position after the sequence
RECURSIVE GrammarSequence(_, _)
GrammarSequence(s, i) ==
  IF i > Len(s) \/ s[i] = ")" THEN [ok |-> TRUE, cells |-> <<>>, next |-> i]
  ELSE
    LET j == RunEnd(s, i, Digit)
        n == IF j > i THEN parseInt(SubSeq(s, i, j - 1)) ELSE 1
    IN IF j > Len(s) THEN [ok |-> FALSE, cells |-> <<>>, next |-> j]
       ELSE IF s[j] \in Upper \/ s[j] = "-" THEN
         LET e == IF s[j] = "-" THEN j + 1 ELSE RunEnd(s, j + 1, Lower)
             rest == GrammarSequence(s, e)
         IN [ok |-> rest.ok,
             cells |-> Repeated(<<SubSeq(s, j, e - 1)>>, n) \o rest.cells,
             next |-> rest.next]
       ELSE IF s[j] = "(" THEN
         LET inner == GrammarSequence(s, j + 1)
             closed == inner.ok /\ inner.next <= Len(s)
             rest == IF closed THEN GrammarSequence(s, inner.next + 1) ELSE inner
         IN [ok |-> closed /\ rest.ok,
             cells |-> Repeated(inner.cells, n) \o rest.cells,
             next |-> rest.next]
       ELSE [ok |-> FALSE, cells |-> <<>>, next |-> j]

WellFormed(s) == GrammarSequence(s, 1).ok /\ GrammarSequence(s, 1).next = Len(s) + 1
Expansion(s) == GrammarSequence(s, 1).cells

\* the cells that the simple RLE chunks from..to of the decoder stand for
RECURSIVE chunkCells(_, _, _)
chunkCells(rleArray, from, to) ==
  IF from > to THEN <<>>
  ELSE IF from = to THEN Repeated(<<rleArray[from][1]>>, rleArray[from][2])
  ELSE LET mid == (from + to) \div 2 IN
    chunkCells(rleArray, from, mid) \o chunkCells(rleArray, mid + 1, to)

\* the cell sequence the decoder of the code makes of a voxel string
DecodedCells(s) ==
  LET rleArray == unpackRle(matchChunks(s)) IN chunkCells(rleArray, 1, Len(rleArray))

\* the size a text declares
DeclaredSize(lines) ==
  LET at == CHOOSE i \in 1..Len(lines) : lines[i].name = "size"
  IN parseXYZInt(lines[at].value).xyz

\* the coordinate of cell number n (from 1) in a grid of a size, x fastest
CoordinateOf(n, size) ==
  <<(n - 1) % size[1], ((n - 1) \div size[1]) % size[2], (n - 1) \div (size[1] * size[2])>>

\* the grid of a model holds exactly the cells, in x, y, z order
GridHolds(m, cells) ==
  /\ Len(cells) = m.size[1] * m.size[2] * m.size[3]
  /\ \A n \in 1..Len(cells) :
       LET color == ColorAt(m.voxels, CoordinateOf(n, m.size)) IN
         IF cells[n] = <<"-">> THEN color = NoColor
         ELSE color # NoColor /\ color.id = cells[n]
  /\ \A c \in DOMAIN m.voxels.cells :
       \E n \in 1..Len(cells) : c = CoordinateOf(n, m.size)

\* C2: reading succeeds only if the number of decoded cells equals
\* size.x*size.y*size.z; for every other number readFromString throws a
\* SyntaxError and returns no Model, and a grid that is read holds every
\* decoded cell (it is neither truncated nor padded)
SizeMismatchIsSyntaxError ==
  firstRead # NotRun =>
    LET size == DeclaredSize(text)
        rleArray == unpackRle(matchChunks(VoxelStringOf(text)))
        decoded == sumCounts(rleArray, 1, Len(rleArray))
    IN /\ decoded # size[1] * size[2] * size[3] => firstRead = [throw |-> SyntaxError]
       /\ firstRead.throw = "none" =>
            /\ decoded = size[1] * size[2] * size[3]
            /\ GridHolds(firstRead.model, DecodedCells(VoxelStringOf(text)))

\* a voxel string with more cells than the declared size was rejected
TooManyCellsRejected ==
  /\ firstRead = [throw |-> SyntaxError]
  /\ Len(DecodedCells(VoxelStringOf(text))) >
       DeclaredSize(text)[1] * DeclaredSize(text)[2] * DeclaredSize(text)[3]

\* C3: for every well-formed voxel string the decoded cell sequence is the
\* expansion the grammar gives (a count multiplies the one symbol or group
\* that follows it, groups nest), and a grid that is read holds these cells
\* in x, then y, then z order
DecoderFollowsGrammar ==
  (firstRead # NotRun /\ WellFormed(VoxelStringOf(text))) =>
    /\ DecodedCells(VoxelStringOf(text)) = Expansion(VoxelStringOf(text))
    /\ firstRead.throw = "none" =>
         GridHolds(firstRead.model, Expansion(VoxelStringOf(text)))

\* the two models have the same declared size and, at every coordinate, the
\* same occupancy and the same color
SameGrid(m1, m2) ==
  /\ m1.size = m2.size
  /\ DOMAIN m1.voxels.cells = DOMAIN m2.voxels.cells
  /\ \A c \in DOMAIN m1.voxels.cells :
       /\ m1.voxels.cells[c].color.id = m2.voxels.cells[c].color.id
       /\ m1.voxels.cells[c].color.color = m2.voxels.cells[c].color.color

\* the voxels of a model reach all six sides of its declared size
ReachesAllSides(m) == BoundingBoxSize(m.voxels.bounds) = m.size

\* C4 as claimed: reading a text, writing the model and reading the output
\* gives a model with the same declared size and grid, also when outer
\* layers of the declared size are empty
RoundTripKeepsGrid ==
  reread # NotRun =>
    /\ reread.throw = "none"
    /\ SameGrid(firstRead.model, reread.model)

\* C4 as amended: the same, for the models whose voxels reach all six sides
\* of the declared size (the writer writes the bounding box of the voxels
\* as the size)
RoundTripKeepsFullGrid ==
  (reread # NotRun /\ ReachesAllSides(firstRead.model)) =>
    /\ reread.throw = "none"
    /\ SameGrid(firstRead.model, reread.model)

\* a grid of two rows with a voxel and an empty cell went through the
\* compressed writer and was read again
FullGridReadAgain ==
  /\ reread # NotRun
  /\ written.compressed
  /\ ReachesAllSides(firstRead.model)
  /\ firstRead.model.size = <<2, 2, 1>>
  /\ firstRead.model.voxels.count < 4

\* ------------------------------------------------------------------------
\* Reading texts with any order of blocks and settings
\* ------------------------------------------------------------------------
MaxLines == 4     \* the longest text, in lines

\* the lines a text is made of
TextLines ==
  {BlockLine("model"), BlockLine("material"), BlockLine("light"),
   BlockLine("texture"), BlockLine("voxels"),
   Setting("size", <<"1">>), Setting("colors", <<"A", ":", "#", "F", "F", "F">>),
   Setting("lights", <<"3">>), Setting("materials", <<"3">>),
   Setting("textures", <<"3">>), Setting("unknown", <<"3">>),
   MatrixLine(<<"A">>)}

ReadInit ==
  /\ TextGiven(UNION {[1..n -> TextLines] : n \in 0..MaxLines})
  /\ WriteIdle /\ CallIdle /\ SvoxIdle /\ RenderIdle

SpecRead == ReadInit /\ [][Read]_vars

\* C6: every text that readFromString rejects is rejected by an exception
\* with the name 'SyntaxError', never by another exception
RejectedBySyntaxError ==
  (firstRead # NotRun /\ firstRead.throw # "none") => firstRead.throw = SyntaxError

\* ------------------------------------------------------------------------
\* The two serializers of the voxel matrix
\* ------------------------------------------------------------------------
GridX == 3        \* the x coordinates that voxels are set at
\* the rows that voxels are set in, by their y and z coordinates
GridRows == {<<0, 0>>, <<1, 0>>, <<0, 1>>}
MaxVoxels == 4    \* the most voxels set

\* the compression windows tried; writeToString uses CompressionWindow
Windows == {1, 2, 3, CompressionWindow}

\* two colors of one material, with ids of one and of two characters
GridColors ==
  {fromHex(<<"#", "F", "8", "0">>, <<"A">>, 1),
   fromHex(<<"#", "0", "8", "F">>, <<"A", "b">>, 1)}

WriteInit ==
  /\ TextGiven({<<>>})
  /\ WriteIdle /\ CallIdle /\ SvoxIdle /\ RenderIdle

\* grid.setVoxel(x, y, z, new Voxel(color))
SetVoxel ==
  /\ serialized = NotRun
  /\ \E x \in 0..(GridX - 1), row \in GridRows, color \in GridColors :
       /\ <<x, row[1], row[2]>> \in DOMAIN grid.cells \/ grid.count < MaxVoxels
       /\ grid' = setVoxel(grid, x, row[1], row[2], Voxel(color))
  /\ UNCHANGED <<textVars, serialized, svoxVars, callVars, renderVars>>

\* both serializers applied to the grid, after prepareForWrite
Serialize ==
  /\ serialized = NotRun
  /\ \E compressionWindow \in Windows :
       LET voxels == VoxelMatrixPrepareForWrite(grid) IN
         serialized' = [throw |-> "none",
                        compressionWindow |-> compressionWindow,
                        plain |-> serializeVoxels(voxels),
                        rle |-> serializeVoxelsRLE(voxels, compressionWindow)]
  /\ UNCHANGED <<textVars, grid, svoxVars, callVars, renderVars>>

WriteNext == SetVoxel \/ Serialize

SpecWrite == WriteInit /\ [][WriteNext]_vars

\* C5: for every grid and every compression window, decoding the output of
\* the RLE serializer gives the cell sequence that decoding the output of
\* the uncompressed serializer gives
SerializersAgree ==
  serialized # NotRun =>
    DecodedCells(rawAfter(serialized.rle, 1)) = DecodedCells(rawAfter(serialized.plain, 1))

\* the RLE serializer folded repeats into two groups, or into a group in a
\* group
TwoGroupsWritten ==
  /\ serialized # NotRun
  /\ LET rle == rawAfter(serialized.rle, 1) IN
       Cardinality({i \in 1..Len(rle) : rle[i] = "("}) >= 2

\* ------------------------------------------------------------------------
\* The built-in fallback models of the worker and of the svox component
\* ------------------------------------------------------------------------

\* the lines of a built-in text
\*   model size=9,scale=0.05,material lighting=flat,colors=...,voxels ...
BuiltIn(colors, voxelString) ==
  <<BlockLine("model"),
    Setting("size", <<"9">>),
    Setting("scale", <<"0", ".", "0", "5">>),
    BlockLine("material"),
    Setting("lighting", <<"f", "l", "a", "t">>),
    Setting("colors", colors),
    BlockLine("voxels"),
    MatrixLine(voxelString)>>

\* the voxel matrix of _MISSING of the worker, which is _ERROR of the component
worker_MISSING_voxels ==
  <<"1", "0", "B", "7", "-", "2", "(", "2", "B", "2", "-", "3", "C", "2",
    "-", "2", "B", "4", "-", "C", "2", "-", ")", "2", "B", "2", "-", "3",
    "C", "2", "-", "2", "B", "7", "-", "1", "1", "B", "7", "-", "B", "-",
    "6", "(", "7", "A", "2", "-", ")", "7", "A", "-", "B", "7", "-", "2",
    "B", "2", "-", "3", "C", "2", "-", "B", "-", "6", "(", "7", "A", "2",
    "-", ")", "7", "A", "-", "B", "2", "-", "3", "C", "2", "-", "2", "B",
    "2", "-", "C", "4", "-", "B", "-", "2", "(", "7", "A", "-", "C", "7",
    "A", "2", "C", ")", "7", "A", "-", "C", "7", "A", "C", "-", "7", "A",
    "-", "B", "2", "-", "C", "4", "-", "2", "B", "2", "-", "3", "C", "2",
    "-", "B", "3", "(", "-", "7", "A", "-", "C", "7", "A", "C", ")", "-",
    "7", "A", "-", "B", "2", "-", "3", "C", "2", "-", "2", "B", "2", "-",
    "C", "4", "-", "B", "-", "7", "A", "-", "C", "2", "(", "7", "A", "C",
    "-", "7", "A", "2", "C", ")", "7", "A", "C", "-", "7", "A", "-", "B",
    "2", "-", "C", "4", "-", "2", "B", "2", "-", "3", "C", "2", "-", "B",
    "-", "6", "(", "7", "A", "2", "-", ")", "7", "A", "-", "B", "2", "-",
    "3", "C", "2", "-", "2", "B", "7", "-", "B", "-", "6", "(", "7", "A",
    "2", "-", ")", "7", "A", "-", "B", "7", "-", "1", "1", "B", "7", "-",
    "2", "(", "2", "B", "2", "-", "3", "C", "2", "-", "2", "B", "2", "-",
    "C", "4", "-", ")", "2", "B", "2", "-", "3", "C", "2", "-", "2", "B",
    "7", "-", "1", "0", "B">>

worker_MISSING_colors ==
  <<"B", ":", "#", "F", "F", "8", "8", "0", "0", " ", "C", ":", "#", "F",
    "F", "0", "0", "0", "0", " ", "A", ":", "#", "F", "F", "F", "F", "F",
    "F">>

\* the voxel matrix of _ERROR of the worker, which is _MISSING of the component
worker_ERROR_voxels ==
  <<"1", "0", "B", "7", "-", "2", "B", "-", "C", "3", "-", "C", "-", "2",
    "B", "2", "-", "C", "-", "C", "2", "-", "2", "B", "3", "-", "C", "3",
    "-", "2", "B", "2", "-", "C", "-", "C", "2", "-", "2", "B", "-", "C",
    "3", "-", "C", "-", "2", "B", "7", "-", "1", "1", "B", "7", "-", "B",
    "-", "6", "(", "7", "A", "2", "-", ")", "7", "A", "-", "B", "7", "-",
    "2", "B", "-", "C", "3", "-", "C", "-", "B", "-", "7", "A", "-", "C",
    "7", "A", "C", "-", "2", "(", "7", "A", "2", "-", ")", "7", "A", "-",
    "C", "7", "A", "C", "-", "7", "A", "-", "B", "-", "C", "3", "-", "C",
    "-", "2", "B", "2", "-", "C", "-", "C", "2", "-", "B", "-", "7", "A",
    "2", "-", "2", "(", "7", "A", "-", "C", "7", "A", "C", "-", ")", "7",
    "A", "2", "-", "7", "A", "-", "B", "2", "-", "C", "-", "C", "2", "-",
    "2", "B", "3", "-", "C", "3", "-", "B", "-", "2", "(", "7", "A", "2",
    "-", ")", "7", "A", "-", "C", "7", "A", "C", "-", "2", "(", "7", "A",
    "2", "-", ")", "7", "A", "-", "B", "3", "-", "C", "3", "-", "2", "B",
    "2", "-", "C", "-", "C", "2", "-", "B", "-", "7", "A", "2", "-", "2",
    "(", "7", "A", "-", "C", "7", "A", "C", "-", ")", "7", "A", "2", "-",
    "7", "A", "-", "B", "2", "-", "C", "-", "C", "2", "-", "2", "B", "-",
    "C", "3", "-", "C", "-", "B", "-", "7", "A", "-", "C", "7", "A", "C",
    "-", "2", "(", "7", "A", "2", "-", ")", "7", "A", "-", "C", "7", "A",
    "C", "-", "7", "A", "-", "B", "-", "C", "3", "-", "C", "-", "2", "B",
    "7", "-", "B", "-", "6", "(", "7", "A", "2", "-", ")", "7", "A", "-",
    "B", "7", "-", "1", "1", "B", "7", "-", "2", "B", "-", "C", "3", "-",
    "C", "-", "2", "B", "2", "-", "C", "-", "C", "2", "-", "2", "B", "3",
    "-", "C", "3", "-", "2", "B", "2", "-", "C", "-", "C", "2", "-", "2",
    "B", "-", "C", "3", "-", "C", "-", "2", "B", "7", "-", "1", "0", "B">>

worker_ERROR_colors ==
  <<"A", ":", "#", "F", "F", "F", "F", "F", "F", " ", "B", ":", "#", "F",
    "F", "8", "8", "0", "0", " ", "C", ":", "#", "F", "F", "0", "0", "0",
    "0">>

\* generateModel of the worker: _MISSING and _ERROR
worker_MISSING == BuiltIn(worker_MISSING_colors, worker_MISSING_voxels)
worker_ERROR == BuiltIn(worker_ERROR_colors, worker_ERROR_voxels)

\* the svox component: _MISSING and _ERROR
svox_MISSING == BuiltIn(worker_ERROR_colors, worker_ERROR_voxels)
svox_ERROR == BuiltIn(worker_MISSING_colors, worker_MISSING_voxels)

\* the models that the built-in texts are read as
worker_MISSING_model == readFromString(worker_MISSING)
worker_ERROR_model == readFromString(worker_ERROR)
svox_MISSING_model == readFromString(svox_MISSING)
svox_ERROR_model == readFromString(svox_ERROR)

\* ------------------------------------------------------------------------
\* The worker (smoothvoxelworker.1.1.0.js)
\* ------------------------------------------------------------------------

\* A model string is undefined, or a string: its lines and, in v, the
\* white space it consists of when it has no line.
ModelString(lines) == [t |-> "string", v |-> <<>>, lines |-> lines]
WhiteSpace(spaces) == [t |-> "string", v |-> spaces, lines |-> <<>>]
NoString == [t |-> "undefined", v |-> <<>>, lines |-> <<>>]

\* !modelString
IsFalsyString(s) == s.t = "undefined" \/ (s.lines = <<>> /\ s.v = <<>>)
\* modelString.trim() === ''
TrimsToEmpty(s) == s.lines = <<>> /\ \A i \in 1..Len(s.v) : s.v[i] = " "

ConfigError == "ConfigError"

\* SvoxMeshGenerator.generate(model): of the mesh the size of the model and
\* the number of its voxels are kept
generate(model) == [size |-> model.size, voxels |-> model.voxels.count]

\* the svoxmesh of the model read, with the error of generateModel
svoxmeshOf(read, errorModel, missing) ==
  IF read.throw = "none"
  THEN [mesh |-> generate(read.model),
        error |-> IF missing THEN ConfigError ELSE "none"]
  ELSE [mesh |-> generate(errorModel.model), error |-> read.throw]

\* generateModel that forgets the error of a text that does not parse
generateModelForgetful(svoxmodel) ==
  [svoxmeshOf(IF IsFalsyString(svoxmodel) \/ TrimsToEmpty(svoxmodel)
              THEN worker_MISSING_model ELSE readFromString(svoxmodel.lines),
              worker_ERROR_model,
              IsFalsyString(svoxmodel) \/ TrimsToEmpty(svoxmodel))
   EXCEPT !.error = IF @ = ConfigError THEN @ ELSE "none"]

\* generateModel(svoxmodel) of the worker: the svoxmesh with its error,
\* "none" for undefined
generateModel(svoxmodel) ==
  svoxmeshOf(IF IsFalsyString(svoxmodel) \/ TrimsToEmpty(svoxmodel)
             THEN worker_MISSING_model ELSE readFromString(svoxmodel.lines),
             worker_ERROR_model,
             IsFalsyString(svoxmodel) \/ TrimsToEmpty(svoxmodel))

\* ------------------------------------------------------------------------
\* WorkerPool; the pool and the message queues of its workers are the
\* fields pool and inbox of a record
\* ------------------------------------------------------------------------

\* new WorkerPool(...)
NewWorkerPool(nrOfWorkers) ==
  [nrOfWorkers |-> nrOfWorkers, workers |-> <<>>, free |-> <<>>, tasks |-> <<>>]

\* _processNextTask that leaves the worker in the free list
processNextTaskKeepFree(st) ==
  IF Len(st.pool.tasks) > 0 /\ Len(st.pool.free) > 0 THEN
    LET task == [svoxmodel |-> Head(st.pool.tasks).svoxmodel,
                 elementId |-> Head(st.pool.tasks).elementId,
                 worker |-> Head(st.pool.free)]
    IN [pool |-> [st.pool EXCEPT !.tasks = Tail(@)],
        inbox |-> [st.inbox EXCEPT ![task.worker] = Append(@, task)]]
  ELSE st

\* WorkerPool._processNextTask
processNextTask(st) ==
  IF Len(st.pool.tasks) > 0 /\ Len(st.pool.free) > 0 THEN
    LET task == [svoxmodel |-> Head(st.pool.tasks).svoxmodel,
                 elementId |-> Head(st.pool.tasks).elementId,
                 worker |-> Head(st.pool.free)]
    IN [pool |-> [st.pool EXCEPT !.tasks = Tail(@), !.free = Tail(@)],
        inbox |-> [st.inbox EXCEPT ![task.worker] = Append(@, task)]]
  ELSE st

\* executeTask that only queues the task
executeTaskQueueOnly(st, task) ==
  LET pool == st.pool
      withWorker == IF Len(pool.workers) < pool.nrOfWorkers
                    THEN [pool EXCEPT !.free = Append(@, Len(pool.workers)),
                                      !.workers = Append(@, Len(pool.workers))]
                    ELSE pool
  IN [st EXCEPT !.pool = [withWorker EXCEPT !.tasks = Append(@, task)]]

\* WorkerPool.executeTask; the workers are numbered from 0
executeTask(st, task) ==
  LET pool == st.pool
      withWorker == IF Len(pool.workers) < pool.nrOfWorkers
                    THEN [pool EXCEPT !.free = Append(@, Len(pool.workers)),
                                      !.workers = Append(@, Len(pool.workers))]
                    ELSE pool
  IN processNextTask([st EXCEPT !.pool = [withWorker EXCEPT !.tasks = Append(@, task)]])

\* worker.onmessage that does not look at the tasks that wait
onmessageOnly(st, data) ==
  [st EXCEPT !.pool.free = Append(@, data.worker)]

\* worker.onmessage of the pool up to the call of the result callback
onmessage(st, data) ==
  processNextTask([st EXCEPT !.pool.free = Append(@, data.worker)])

\* ------------------------------------------------------------------------
\* The svox component
\* ------------------------------------------------------------------------
MaxWorkers == 2    \* the largest hardwareConcurrency
MaxElements == 3   \* the entities with an svox component

\* SVOX.models: a model that reads, one with a voxel too many, a string of
\* one space and the empty string
models ==
  [good  |-> ModelString(ModelText(<<1, 1, 1>>, <<"A">>)),
   bad   |-> ModelString(ModelText(<<1, 1, 1>>, <<"A", "A">>)),
   blank |-> WhiteSpace(<<" ">>),
   empty |-> WhiteSpace(<<>>)]

\* the values of the model property: the names in SVOX.models and one more
ModelNames == (DOMAIN models) \cup {"absent"}

\* SVOX.models[modelName]
modelOf(modelName) ==
  IF modelName \in DOMAIN models THEN models[modelName] ELSE NoString

\* generateModel(svoxmodel) of the worker for each of SVOX.models, by name
svoxmeshes == [name \in DOMAIN models |-> generateModel(models[name])]

\* a name that SVOX.models holds the model string under
NameOf(svoxmodel) == CHOOSE name \in DOMAIN models : models[name] = svoxmodel

NoMesh == [none |-> TRUE]

\* SvoxToThreeMeshConverter.generate(svoxmesh)
SvoxToThreeMeshConverter(svoxmesh) == [type |-> "Mesh", geometry |-> svoxmesh]

\* the mesh that _generateModel hands to el.setObject3D for the model read,
\* that of errorModel when reading threw, NoMesh when it is not called
meshOf(read, errorModel) ==
  IF read.throw = "none" THEN SvoxToThreeMeshConverter(generate(read.model))
  ELSE IF errorModel.throw = "none"
  THEN SvoxToThreeMeshConverter(generate(errorModel.model))
  ELSE NoMesh

\* _generateModel(modelString, el, error): the mesh handed to
\* el.setObject3D, NoMesh when it is not called; missing tells that
\* modelString is _MISSING
svoxGenerateModel(modelString, missing) ==
  meshOf(IF missing THEN svox_MISSING_model ELSE readFromString(modelString.lines),
         svox_ERROR_model)

NewElement == [state |-> "new", model |-> "", worker |-> FALSE, mesh |-> NoMesh]

SvoxInit ==
  /\ TextGiven({<<>>})
  /\ WriteIdle /\ CallIdle /\ RenderIdle
  /\ hardwareConcurrency \in 1..MaxWorkers
  /\ elements = [el \in 1..MaxElements |-> NewElement]
  /\ WORKERPOOL = Null
  /\ inbox = [w \in 0..(MaxWorkers - 1) |-> <<>>]
  /\ outbox = <<>>
  /\ posted = [el \in 1..MaxElements |-> 0]
  /\ callbacks = [el \in 1..MaxElements |-> 0]

\* init of the svox component of element el, with its data
init(el, modelName, useWorker) ==
  LET missing == IsFalsyString(modelOf(modelName))
      st == executeTask([pool |-> IF WORKERPOOL = Null
                                  THEN NewWorkerPool(hardwareConcurrency)
                                  ELSE WORKERPOOL,
                         inbox |-> inbox],
                        [svoxmodel |-> modelOf(modelName), elementId |-> el])
  IN /\ elements[el].state = "new"
     /\ IF useWorker /\ ~missing
        THEN \* _generateModelInWorker
             /\ elements' = [elements EXCEPT ![el] =
                    [state |-> "waiting", model |-> modelName, worker |-> TRUE,
                     mesh |-> NoMesh]]
             /\ WORKERPOOL' = st.pool
             /\ inbox' = st.inbox
        ELSE \* _generateModel
             /\ elements' = [elements EXCEPT ![el] =
                    [state |-> "done", model |-> modelName, worker |-> FALSE,
                     mesh |-> svoxGenerateModel(modelOf(modelName), missing)]]
             /\ UNCHANGED <<WORKERPOOL, inbox>>
     /\ UNCHANGED <<hardwareConcurrency, outbox, posted, callbacks, textVars, writeVars, callVars,
                    renderVars>>

\* onmessage of worker w: it handles the first task posted to it
WorkerOnMessage(w) ==
  /\ inbox[w] # <<>>
  /\ LET data == Head(inbox[w]) IN
       /\ outbox' = Append(outbox, [svoxmesh |-> svoxmeshes[NameOf(data.svoxmodel)],
                                     elementId |-> data.elementId,
                                     worker |-> data.worker])
       /\ posted' = [posted EXCEPT ![data.elementId] = @ + 1]
  /\ inbox' = [inbox EXCEPT ![w] = Tail(@)]
  /\ UNCHANGED <<hardwareConcurrency, elements, WORKERPOOL, callbacks, textVars, writeVars, callVars,
                 renderVars>>

\* worker.onmessage of the pool on one of the responses, with the result
\* callback _processResult of the component
PoolOnMessage ==
  \E i \in 1..Len(outbox) :
    LET data == outbox[i]
        st == onmessage([pool |-> WORKERPOOL, inbox |-> inbox], data)
    IN /\ outbox' = SubSeq(outbox, 1, i - 1) \o SubSeq(outbox, i + 1, Len(outbox))
       /\ WORKERPOOL' = st.pool
       /\ inbox' = st.inbox
       /\ elements' = [elements EXCEPT ![data.elementId] =
             [@ EXCEPT !.state = "done",
                       !.mesh = IF data.svoxmesh.error # "none" THEN @
                                ELSE SvoxToThreeMeshConverter(data.svoxmesh)]]
       /\ callbacks' = [callbacks EXCEPT ![data.elementId] = @ + 1]
       /\ UNCHANGED <<hardwareConcurrency, posted, textVars, writeVars, callVars, renderVars>>

SvoxNext ==
  \/ \E el \in 1..MaxElements, modelName \in ModelNames, useWorker \in BOOLEAN :
       init(el, modelName, useWorker)
  \/ \E w \in 0..(MaxWorkers - 1) : WorkerOnMessage(w)
  \/ PoolOnMessage

SpecSvox == SvoxInit /\ [][SvoxNext]_vars

\* the model string of the element is missing or fails to parse
NeedsFallback(el) ==
  \/ IsFalsyString(modelOf(elements[el].model))
  \/ readFromString(modelOf(elements[el].model).lines).throw # "none"

\* C7: whenever the model string is missing or fails to parse, the element
\* still ends up with a mesh set (that of a fallback model), on the direct
\* path and on the worker path alike
FallbackMeshSet ==
  \A el \in 1..MaxElements :
    (elements[el].state = "done" /\ NeedsFallback(el)) => elements[el].mesh # NoMesh

\* the numbers of cells the built-in texts of the worker decode to
worker_MISSING_cells == Len(DecodedCells(worker_MISSING_voxels))
worker_ERROR_cells == Len(DecodedCells(worker_ERROR_voxels))

\* the tasks of element el that wait in the pool or at a worker
TasksOf(el) ==
  Cardinality({i \in 1..Len(WORKERPOOL.tasks) : WORKERPOOL.tasks[i].elementId = el})
  + Cardinality({<<w, i>> \in (0..(MaxWorkers - 1)) \X (1..MaxElements) :
                   i <= Len(inbox[w]) /\ inbox[w][i].elementId = el})

Unanswered(w) ==
  Len(inbox[w]) + Cardinality({i \in 1..Len(outbox) : outbox[i].worker = w})

RECURSIVE Sum(_, _)
Sum(f, keys) ==
  IF keys = {} THEN 0
  ELSE LET k == CHOOSE key \in keys : TRUE IN f[k] + Sum(f, keys \ {k})

\* C9: with N = hardwareConcurrency, at every moment at most N tasks are
\* in flight, the pool has at most N workers, and no worker holds more
\* than one task that is not answered
PoolWithinConcurrency ==
  WORKERPOOL # Null =>
    /\ Sum([w \in 0..(MaxWorkers - 1) |-> Unanswered(w)], 0..(MaxWorkers - 1))
         <= hardwareConcurrency
    /\ Len(WORKERPOOL.workers) <= hardwareConcurrency
    /\ \A w \in 0..(MaxWorkers - 1) : Unanswered(w) <= 1

\* every worker of a pool of two holds a task while another task waits
AllWorkersBusy ==
  /\ WORKERPOOL # Null
  /\ hardwareConcurrency = 2
  /\ \A w \in 0..1 : Unanswered(w) = 1
  /\ WORKERPOOL.tasks # <<>>

\* C10: after every executeTask and after every handled worker response,
\* it is never the case that a task waits in the queue while the free list
\* holds a worker
NoTaskWaitsForFreeWorker ==
  WORKERPOOL # Null => ~(WORKERPOOL.tasks # <<>> /\ WORKERPOOL.free # <<>>)

\* a response was handled while a task waited: the task went to the worker
\* and another task still waits
ResponseHandledWithQueue ==
  /\ WORKERPOOL # Null
  /\ \E el \in 1..MaxElements : elements[el].worker /\ elements[el].state = "done"
  /\ \E w \in 0..(MaxWorkers - 1) : inbox[w] # <<>>
  /\ WORKERPOOL.tasks # <<>>

\* The workers and the event loop of the page run on: a worker that was
\* posted a task handles it, and a response that was posted is handled.
SpecSvoxFair ==
  /\ SvoxInit /\ [][SvoxNext]_vars
  /\ WF_vars(\E w \in 0..(MaxWorkers - 1) : WorkerOnMessage(w))
  /\ WF_vars(PoolOnMessage)

\* the elements whose tasks wait in the queue of the pool, in queue order
Waiting(pool) ==
  IF pool = Null THEN <<>>
  ELSE [i \in 1..Len(pool.tasks) |-> pool.tasks[i].elementId]

\* the elements whose tasks were posted to a worker that has not handled them
AtWorker(workerInbox) ==
  {el \in 1..MaxElements :
     \E w \in DOMAIN workerInbox : \E i \in 1..Len(workerInbox[w]) :
       workerInbox[w][i].elementId = el}

\* a step takes from the queue at most its first task, posts no task that
\* was not the first of a queue that held one, and leaves the other tasks
\* in their order
DispatchedInOrder ==
  LET old == Waiting(WORKERPOOL)
      new == Waiting(WORKERPOOL')
  IN /\ \A el \in AtWorker(inbox') \ AtWorker(inbox) : old # <<>> => el = old[1]
     /\ \E k \in {0, 1} :
          /\ k <= Len(old) /\ Len(new) >= Len(old) - k
          /\ SubSeq(new, 1, Len(old) - k) = SubSeq(old, k + 1, Len(old))

\* C11: with at least one worker and every task posted to a worker
\* answered in the end, every task passed to executeTask is posted to a
\* worker in the end and its result callback is called exactly once, and
\* the tasks that wait are dispatched in the order they were submitted
EveryTaskAnsweredOnce ==
  /\ <>[](\A el \in 1..MaxElements :
            elements[el].worker => posted[el] = 1 /\ callbacks[el] = 1)
  /\ [](\A el \in 1..MaxElements :
          /\ callbacks[el] <= posted[el] /\ posted[el] <= 1
          /\ ~elements[el].worker => callbacks[el] = 0)
  /\ [][DispatchedInOrder]_vars

\* the callback was called for every element, each a task of a pool with
\* one worker, and for no element twice
AllTasksAnswered ==
  /\ WORKERPOOL # Null /\ hardwareConcurrency = 1
  /\ \A el \in 1..MaxElements : elements[el].worker /\ callbacks[el] = 1

\* ------------------------------------------------------------------------
\* Model.prepareForRender: the faces of the voxels
\* ------------------------------------------------------------------------
FACES == <<"nx", "px", "ny", "py", "nz", "pz">>

NEIGHBORS ==
  [nx |-> <<-1, 0, 0>>, px |-> <<1, 0, 0>>, ny |-> <<0, -1, 0>>,
   py |-> <<0, 1, 0>>, nz |-> <<0, 0, -1>>, pz |-> <<0, 0, 1>>]

\* _createFace without the face of a transparent voxel next to a wireframe
createFaceOfOpaque(list, voxel, neighbor) ==
  IF voxel = NoVoxel \/ baseOf(list, voxel.color.material).opacity = 0 THEN FALSE
  ELSE IF neighbor = NoVoxel THEN TRUE
  ELSE IF /\ ~isTransparent(baseOf(list, neighbor.color.material))
          /\ ~baseOf(list, neighbor.color.material).wireframe THEN FALSE
  ELSE IF /\ ~isTransparent(baseOf(list, voxel.color.material))
          /\ ~baseOf(list, voxel.color.material).wireframe THEN TRUE
  ELSE FALSE

\* Model._createFace: TRUE when it returns a face, FALSE when it returns
\* null; list holds the materials of the model
createFace(list, voxel, neighbor) ==
  IF voxel = NoVoxel \/ baseOf(list, voxel.color.material).opacity = 0 THEN FALSE
  ELSE IF neighbor = NoVoxel THEN TRUE
  ELSE IF /\ ~isTransparent(baseOf(list, neighbor.color.material))
          /\ ~baseOf(list, neighbor.color.material).wireframe THEN FALSE
  ELSE IF /\ ~isTransparent(baseOf(list, voxel.color.material))
          /\ ~baseOf(list, voxel.color.material).wireframe THEN TRUE
  ELSE IF /\ isTransparent(baseOf(list, voxel.color.material))
          /\ ~baseOf(list, voxel.color.material).wireframe
          /\ baseOf(list, neighbor.color.material).wireframe THEN TRUE
  ELSE FALSE

\* the neighbor of the voxel at coordinate c on the side faceName
neighborOf(m, c, faceName) ==
  getVoxel(m, c[1] + NEIGHBORS[faceName][1], c[2] + NEIGHBORS[faceName][2],
           c[3] + NEIGHBORS[faceName][3])

\* SVOX._VERTICES with the last corner of px given twice
VERTICESRepeated ==
  [nx |-> <<<<0, 0, 0>>, <<0, 1, 0>>, <<0, 1, 1>>, <<0, 0, 1>>>>,
   px |-> <<<<1, 0, 1>>, <<1, 1, 1>>, <<1, 1, 0>>, <<1, 1, 0>>>>,
   ny |-> <<<<0, 0, 0>>, <<0, 0, 1>>, <<1, 0, 1>>, <<1, 0, 0>>>>,
   py |-> <<<<0, 1, 1>>, <<0, 1, 0>>, <<1, 1, 0>>, <<1, 1, 1>>>>,
   nz |-> <<<<1, 0, 0>>, <<1, 1, 0>>, <<0, 1, 0>>, <<0, 0, 0>>>>,
   pz |-> <<<<0, 0, 1>>, <<0, 1, 1>>, <<1, 1, 1>>, <<1, 0, 1>>>>]

\* SVOX._VERTICES: the offsets of the four corners of each side
VERTICES ==
  [nx |-> <<<<0, 0, 0>>, <<0, 1, 0>>, <<0, 1, 1>>, <<0, 0, 1>>>>,
   px |-> <<<<1, 0, 1>>, <<1, 1, 1>>, <<1, 1, 0>>, <<1, 0, 0>>>>,
   ny |-> <<<<0, 0, 0>>, <<0, 0, 1>>, <<1, 0, 1>>, <<1, 0, 0>>>>,
   py |-> <<<<0, 1, 1>>, <<0, 1, 0>>, <<1, 1, 0>>, <<1, 1, 1>>>>,
   nz |-> <<<<1, 0, 0>>, <<1, 1, 0>>, <<0, 1, 0>>, <<0, 0, 0>>>>,
   pz |-> <<<<0, 0, 1>>, <<0, 1, 1>>, <<1, 1, 1>>, <<1, 0, 1>>>>]

\* A Vertex object is known by its number: the n-th Vertex the model
\* created. NoVertex stands for null / undefined
NoVertex == 0

\* _getVertex that finds no vertex
getVertexNever(vertices, x, y, z) == NoVertex

\* Model._getVertex; vertices is the index this.vertices, a function from
\* the coordinates <<x, y, z>> to the Vertex stored there
getVertex(vertices, x, y, z) ==
  IF <<x, y, z>> \in DOMAIN vertices THEN vertices[<<x, y, z>>] ELSE NoVertex

\* Model._setVertex
setVertex(vertices, x, y, z, vertex) == Put(vertices, <<x, y, z>>, vertex)

\* the coordinate of corner vi of the side faceName of the voxel at c
cornerOf(c, faceName, vi) ==
  <<c[1] + VERTICES[faceName][vi][1], c[2] + VERTICES[faceName][vi][2],
    c[3] + VERTICES[faceName][vi][3]>>

\* Model._createVertex for the voxel at c: the vertex at the coordinate of
\* the corner, created and stored in the index when there is none yet
createVertex(vertices, objects, c, faceName, vi) ==
  LET at == cornerOf(c, faceName, vi) IN
    IF getVertex(vertices, at[1], at[2], at[3]) = NoVertex
    THEN [vertices |-> setVertex(vertices, at[1], at[2], at[3], objects + 1),
          objects |-> objects + 1, vertex |-> objects + 1]
    ELSE [vertices |-> vertices, objects |-> objects,
          vertex |-> getVertex(vertices, at[1], at[2], at[3])]

\* the vertices: [ ... ] of the face that _createFace builds, face holding
\* those created so far
RECURSIVE createFaceVertices(_, _, _, _, _)
createFaceVertices(vertices, objects, c, faceName, face) ==
  IF Len(face) = 4
  THEN [vertices |-> vertices, objects |-> objects, face |-> face]
  ELSE LET v == createVertex(vertices, objects, c, faceName, Len(face) + 1) IN
    createFaceVertices(v.vertices, v.objects, c, faceName, Append(face, v.vertex))

\* createFaces of prepareForRender for the voxels at the coordinates
\* cells, from side f of the first of them on: made.corners holds the
\* vertices of the faces created
RECURSIVE createFaces(_, _, _, _)
createFaces(model, made, cells, f) ==
  IF cells = <<>> THEN made
  ELSE IF f > Len(FACES) THEN createFaces(model, made, Tail(cells), 1)
  ELSE IF createFace(model.materials, model.voxels.cells[Head(cells)],
                     neighborOf(model.voxels, Head(cells), FACES[f]))
  THEN LET face == createFaceVertices(made.vertices, made.objects, Head(cells), FACES[f], <<>>)
           with == [vertices |-> face.vertices, objects |-> face.objects,
                    corners |-> Put(made.corners, <<Head(cells), FACES[f]>>, face.face)]
       IN IF with.objects >= made.objects
          THEN createFaces(model, with, cells, f + 1) ELSE made
  ELSE createFaces(model, made, cells, f + 1)

\* the names of the faces that createFaces stored for the voxel at c
facesOf(corners, c) ==
  {FACES[f] : f \in {g \in 1..Len(FACES) : <<c, FACES[g]>> \in DOMAIN corners}}

\* voxel.material.bounds.set(x, y, z) of VoxelMatrix.setVoxel; list holds
\* the materials of the model
materialBoundsSet(list, x, y, z, voxel) ==
  [list EXCEPT !.materials[voxel.color.material].bounds = BoundingBoxSetAny(@, x, y, z)]

\* model.voxels.setVoxel(x, y, z, voxel) with what it does to the material
\* of the voxel
modelSetVoxel(model, x, y, z, voxel) ==
  [model EXCEPT !.voxels = setVoxel(@, x, y, z, voxel),
                !.materials = materialBoundsSet(@, x, y, z, voxel)]

\* the bounds of the materials after the voxels at the indices todo were
\* set again by VoxelMatrix.prepareForWrite
RECURSIVE overwriteBounds(_, _, _)
overwriteBounds(list, cells, todo) ==
  IF todo = <<>> THEN list
  ELSE overwriteBounds(
         materialBoundsSet(list, cells[Head(todo)].x, cells[Head(todo)].y,
                           cells[Head(todo)].z, cells[Head(todo)]),
         cells, Tail(todo))

\* material.bounds.reset() for every material
resetBounds(list) ==
  [list EXCEPT !.materials =
     [m \in DOMAIN list.materials |-> [list.materials[m] EXCEPT !.bounds = BoundingBoxReset]]]

\* Model.prepareForWrite that leaves the bounds of the materials as they are
ModelPrepareForWriteKeep(model) ==
  [model EXCEPT
     !.voxels = VoxelMatrixPrepareForWrite(model.voxels),
     !.materials = overwriteBounds(model.materials, model.voxels.cells,
                                   forEachOrder(DOMAIN model.voxels.cells))]

\* Model.prepareForWrite: the bounds of the materials are reset, then
\* this.voxels.prepareForWrite() sets every voxel again
ModelPrepareForWrite(model) ==
  [model EXCEPT
     !.voxels = VoxelMatrixPrepareForWrite(model.voxels),
     !.materials = overwriteBounds(resetBounds(model.materials), model.voxels.cells,
                                   forEachOrder(DOMAIN model.voxels.cells))]

MaxMaterials == 2      \* the materials of the model rendered
MaxRenderVoxels == 2   \* the most voxels set

\* the opacities of the materials, in percent
Opacities == {0, 50, 100}

\* the coordinates that voxels are set at: a corner and the three cells
\* next to it
RenderCells == {<<0, 0, 0>>, <<1, 0, 0>>, <<0, 1, 0>>, <<0, 0, 1>>}

RenderInit ==
  /\ TextGiven({<<>>})
  /\ WriteIdle /\ CallIdle /\ SvoxIdle /\ RenderIdle

\* the color that material.addColor(Color.fromHex(hex)) gives the m-th
\* material of the model rendered, and its id
SceneColors ==
  <<[hex |-> <<"#", "F", "F", "F">>, id |-> <<"A">>],
    [hex |-> <<"#", "F", "8", "0">>, id |-> <<"B">>],
    [hex |-> <<"#", "0", "8", "F">>, id |-> <<"C">>],
    [hex |-> <<"#", "0", "8", "0">>, id |-> <<"D">>]>>

\* model.materials.createMaterial(...).addColor(Color.fromHex('#FFF')) with
\* one of the given <<opacity, transparent, wireframe>>
CreateMaterialFrom(kinds) ==
  /\ facesCreated = NotRun
  /\ Len(scene.materials.materials) < MaxMaterials
  /\ \E kind \in kinds :
       LET m == Len(scene.materials.materials) + 1 IN
         scene' = [scene EXCEPT !.materials =
           addColor(createMaterial(@, 100, kind[1], kind[2], kind[3]), m,
                    fromHex(SceneColors[m].hex, SceneColors[m].id, m))]
  /\ facesCreated' = NotRun
  /\ UNCHANGED <<textVars, writeVars, svoxVars, callVars>>

CreateMaterial == CreateMaterialFrom(Opacities \X BOOLEAN \X BOOLEAN)

\* model.voxels.setVoxel(x, y, z, new Voxel(color)), color of material m
RenderSetVoxel ==
  /\ facesCreated = NotRun
  /\ \E c \in RenderCells, m \in 1..Len(scene.materials.materials) :
       /\ c \notin DOMAIN scene.voxels.cells
       /\ scene.voxels.count < MaxRenderVoxels
       /\ scene' = modelSetVoxel(scene, c[1], c[2], c[3],
                                 Voxel(scene.materials.materials[m].colors[1]))
  /\ facesCreated' = NotRun
  /\ UNCHANGED <<textVars, writeVars, svoxVars, callVars>>

\* model.prepareForRender(), up to the end of createFaces, of a model that
\* has not been rendered yet
PrepareForRender ==
  /\ facesCreated = NotRun
  /\ scene.voxels.count > 0
  /\ \E prepared \in {ModelPrepareForWrite(scene)} :
     \E made \in {createFaces(prepared, [vertices |-> <<>>, objects |-> scene.objects,
                                        corners |-> <<>>],
                               forEachOrder(DOMAIN prepared.voxels.cells), 1)} :
       /\ scene' = [prepared EXCEPT
             !.voxels.cells =
               [c \in DOMAIN prepared.voxels.cells |->
                  [prepared.voxels.cells[c] EXCEPT
                     !.faces = @ \cup facesOf(made.corners, c),
                     !.visible = facesOf(made.corners, c) # {}]],
             !.vertices = made.vertices,
             !.objects = made.objects]
       /\ facesCreated' = [throw |-> "none",
             faces |-> DOMAIN made.corners,
             corners |-> made.corners,
             earlier |-> scene.objects]
  /\ UNCHANGED <<textVars, writeVars, svoxVars, callVars>>

RenderNext == CreateMaterial \/ RenderSetVoxel \/ PrepareForRender

SpecRender == RenderInit /\ [][RenderNext]_vars

\* the material of a voxel is opaque and not a wireframe
OpaqueSolid(v) ==
  /\ ~isTransparent(baseOf(scene.materials, v.color.material))
  /\ ~baseOf(scene.materials, v.color.material).wireframe

\* the material of a voxel is transparent and not a wireframe
TransparentSolid(v) ==
  /\ isTransparent(baseOf(scene.materials, v.color.material))
  /\ ~baseOf(scene.materials, v.color.material).wireframe

Wireframe(v) == baseOf(scene.materials, v.color.material).wireframe

\* after prepareForRender, P(V, N, face generated) for every voxel V and
\* each of its sides with the neighboring cell N
ForEveryFace(P(_, _, _)) ==
  facesCreated # NotRun =>
    \A c \in DOMAIN scene.voxels.cells : \A f \in 1..Len(FACES) :
      P(scene.voxels.cells[c], neighborOf(scene.voxels, c, FACES[f]),
        <<c, FACES[f]>> \in facesCreated.faces)

\* C1 as claimed: no face is generated when the material of V has opacity
\* 0; otherwise the face is left out if and only if N holds a voxel with an
\* opaque, non-wireframe material and the material of V is opaque and
\* non-wireframe too; every other combination generates a face
FaceUnlessBothOpaque ==
  ForEveryFace(LAMBDA V, N, generated :
    generated <=>
      /\ baseOf(scene.materials, V.color.material).opacity # 0
      /\ ~(N # NoVoxel /\ OpaqueSolid(N) /\ OpaqueSolid(V)))

\* C1 as amended: no face is generated when the material of V has opacity
\* 0; otherwise a face is generated if and only if N is empty, or the
\* material of N is transparent or wireframe and either the material of V
\* is opaque and non-wireframe, or it is transparent and non-wireframe and
\* that of N is wireframe
FaceTowardsSeeThrough ==
  ForEveryFace(LAMBDA V, N, generated :
    generated <=>
      /\ baseOf(scene.materials, V.color.material).opacity # 0
      /\ \/ N = NoVoxel
         \/ /\ ~OpaqueSolid(N)
            /\ OpaqueSolid(V) \/ (TransparentSolid(V) /\ Wireframe(N)))

\* a transparent voxel got a face towards a wireframe neighbor
TransparentFacesRendered ==
  /\ facesCreated # NotRun
  /\ \E c \in DOMAIN scene.voxels.cells : \E f \in 1..Len(FACES) :
       LET V == scene.voxels.cells[c]
           N == neighborOf(scene.voxels, c, FACES[f])
       IN /\ N # NoVoxel /\ TransparentSolid(V)
          /\ baseOf(scene.materials, V.color.material).opacity # 0
          /\ Wireframe(N) /\ <<c, FACES[f]>> \in facesCreated.faces

\* ------------------------------------------------------------------------
\* A Model that is changed and rendered again
\* ------------------------------------------------------------------------

\* model.voxels.setVoxel(x, y, z, new Voxel(color)) of an empty cell of a
\* model that was rendered, color of material m
SetVoxelAfterRender ==
  /\ facesCreated # NotRun
  /\ \E c \in RenderCells, m \in 1..Len(scene.materials.materials) :
       /\ c \notin DOMAIN scene.voxels.cells
       /\ scene.voxels.count < MaxRenderVoxels
       /\ scene' = modelSetVoxel(scene, c[1], c[2], c[3],
                                 Voxel(scene.materials.materials[m].colors[1]))
  /\ facesCreated' = NotRun
  /\ UNCHANGED <<textVars, writeVars, svoxVars, callVars>>

\* the materials of a model that is rendered again: an opaque one and one
\* that is seen through
RerenderKinds == {<<100, FALSE, FALSE>>, <<50, FALSE, FALSE>>}

CreateRerenderMaterial == CreateMaterialFrom(RerenderKinds)

RerenderNext ==
  CreateRerenderMaterial \/ RenderSetVoxel \/ PrepareForRender \/ SetVoxelAfterRender

SpecRerender == RenderInit /\ [][RerenderNext]_vars

\* ------------------------------------------------------------------------
\* A VoxelMatrix that voxels are set in and cleared from
\* ------------------------------------------------------------------------
MatrixX == 2     \* the x coordinates that voxels are set at and cleared from
MaxCount == 3    \* the highest count that a voxel is set or cleared at
MaxDrift == 1    \* how far below 0 a voxel moves when others are cleared

\* the rows that voxels are set in and cleared from, by their y and z
MatrixRows == {<<0, 0>>, <<1, 0>>}

MatrixInit ==
  /\ TextGiven({<<>>})
  /\ WriteIdle /\ CallIdle /\ SvoxIdle /\ RenderIdle

\* grid.setVoxel(x, y, z, new Voxel(color))
MatrixSetVoxel ==
  /\ grid.count < MaxCount
  /\ \E x \in 0..(MatrixX - 1), row \in MatrixRows :
       grid' = setVoxel(grid, x, row[1], row[2],
                        Voxel(fromHex(<<"#", "F", "8", "0">>, <<"A">>, 1)))
  /\ UNCHANGED <<textVars, serialized, svoxVars, callVars, renderVars>>

\* grid.clearVoxel(x, y, z) of an occupied cell
MatrixClearVoxel ==
  /\ grid.count < MaxCount
  /\ \E x \in 0..(MatrixX - 1), row \in MatrixRows :
       /\ <<x, row[1], row[2]>> \in DOMAIN grid.cells
       /\ \A c \in DOMAIN grid.cells :
            c[2] = row[1] /\ c[3] = row[2] => c[1] > 0 - MaxDrift
       /\ grid' = clearVoxel(grid, x, row[1], row[2])
  /\ UNCHANGED <<textVars, serialized, svoxVars, callVars, renderVars>>

\* grid.prepareForWrite()
MatrixPrepareForWrite ==
  /\ grid' = VoxelMatrixPrepareForWrite(grid)
  /\ UNCHANGED <<textVars, serialized, svoxVars, callVars, renderVars>>

MatrixNext == MatrixSetVoxel \/ MatrixClearVoxel \/ MatrixPrepareForWrite

SpecMatrix == MatrixInit /\ [][MatrixNext]_vars

\* C14: after every setVoxel, clearVoxel and prepareForWrite the count of
\* the VoxelMatrix is the number of its occupied cells
CountIsOccupiedCells == grid.count = Cardinality(DOMAIN grid.cells)

\* C12: at the end of the face creation of every prepareForRender, also of
\* one that follows a setVoxel on a rendered model, a voxel holds a face
\* for a side if and only if this call generated one for that side
FacesAreThoseGenerated ==
  facesCreated # NotRun =>
    \A c \in DOMAIN scene.voxels.cells : \A f \in 1..Len(FACES) :
      FACES[f] \in scene.voxels.cells[c].faces <=> <<c, FACES[f]>> \in facesCreated.faces

\* the corners of the faces that prepareForRender created, each the
\* coordinate it lies at and the Vertex object the face holds for it
CornersCreated ==
  {<<cornerOf(a[1], a[2], i), facesCreated.corners[a][i]>> :
     a \in facesCreated.faces, i \in 1..4}

\* C13: within one prepareForRender, two corners of the faces created are
\* the same Vertex object if and only if they lie at the same coordinate,
\* and none of them is a Vertex that an earlier call created
VerticesSharedByCoordinate ==
  facesCreated # NotRun =>
    /\ \A p \in CornersCreated, q \in CornersCreated : p[1] = q[1] <=> p[2] = q[2]
    /\ \A p \in CornersCreated : p[2] > facesCreated.earlier

\* a second prepareForRender created faces of two voxels that share a
\* vertex
VertexSharedInLaterCall ==
  /\ facesCreated # NotRun /\ facesCreated.earlier > 0
  /\ \E a \in facesCreated.faces, b \in facesCreated.faces :
       /\ a[1] # b[1]
       /\ \E i \in 1..4, j \in 1..4 :
            facesCreated.corners[a][i] = facesCreated.corners[b][j]

\* ------------------------------------------------------------------------
\* Model.prepareForWrite: the bounds of the voxels and of the materials
\* ------------------------------------------------------------------------

\* model.voxels.setVoxel(x, y, z, new Voxel(color)) of an empty or an
\* occupied cell, color of material m
SceneSetVoxel ==
  /\ \E c \in RenderCells, m \in 1..Len(scene.materials.materials) :
       /\ c \in DOMAIN scene.voxels.cells
            \/ scene.voxels.count < MaxRenderVoxels
       /\ scene' = modelSetVoxel(scene, c[1], c[2], c[3],
                                 Voxel(scene.materials.materials[m].colors[1]))
  /\ facesCreated' = NotRun
  /\ UNCHANGED <<textVars, writeVars, svoxVars, callVars>>

\* model.prepareForWrite(), as prepareForRender and writeToString start
\* with; before holds the bounds the materials had
ScenePrepareForWrite ==
  /\ scene' = ModelPrepareForWrite(scene)
  /\ facesCreated' = [throw |-> "none",
                      before |-> [m \in DOMAIN scene.materials.materials |->
                                    scene.materials.materials[m].bounds]]
  /\ UNCHANGED <<textVars, writeVars, svoxVars, callVars>>

BoundsNext == CreateRerenderMaterial \/ SceneSetVoxel \/ ScenePrepareForWrite

SpecBounds == RenderInit /\ [][BoundsNext]_vars

\* the box b is the tight bounding box of the coordinates in cells, and
\* the box that reset leaves when there are none
TightBox(b, cells) ==
  IF cells = {} THEN b = BoundingBoxReset
  ELSE /\ b \notin {NewBoundingBox, NaNBoundingBox}
       /\ \A c \in cells : /\ b.minX <= c[1] /\ c[1] <= b.maxX
                            /\ b.minY <= c[2] /\ c[2] <= b.maxY
                            /\ b.minZ <= c[3] /\ c[3] <= b.maxZ
       /\ \E c \in cells : c[1] = b.minX
       /\ \E c \in cells : c[1] = b.maxX
       /\ \E c \in cells : c[2] = b.minY
       /\ \E c \in cells : c[2] = b.maxY
       /\ \E c \in cells : c[3] = b.minZ
       /\ \E c \in cells : c[3] = b.maxZ

MaxCalls == 4    \* the most calls of createMaterial

\* the <<roughness, opacity, transparent, wireframe>> of the calls
CallKinds == {100} \X {50, 100} \X BOOLEAN \X BOOLEAN

\* model.materials.createMaterial(...)
CallCreateMaterial ==
  /\ Len(scene.materials.materials) < MaxCalls
  /\ \E kind \in CallKinds :
       scene' = [scene EXCEPT !.materials =
                   createMaterial(@, kind[1], kind[2], kind[3], kind[4])]
  /\ UNCHANGED <<textVars, writeVars, svoxVars, callVars, facesCreated>>

SpecMaterials == RenderInit /\ [][CallCreateMaterial]_vars

\* what a call of createMaterial with the given kind leaves of the list old
\* in the list new: the materials with one more at the end, the
\* baseMaterials as they were or with one more at the end, and the new
\* Material wrapping the first BaseMaterial with the baseId of the call
CallFollowed(old, new, kind) ==
  LET wrapped == new.materials[Len(new.materials)].baseMaterial
      key == baseId(BaseMaterial(kind[1], kind[2], kind[3], kind[4]))
      first == {k \in 1..Len(new.baseMaterials) :
                  /\ baseId(new.baseMaterials[k]) = key
                  /\ \A j \in 1..(k - 1) : baseId(new.baseMaterials[j]) # key}
  IN /\ Len(new.materials) = Len(old.materials) + 1
     /\ SubSeq(new.materials, 1, Len(old.materials)) = old.materials
     /\ Len(new.baseMaterials) \in {Len(old.baseMaterials), Len(old.baseMaterials) + 1}
     /\ SubSeq(new.baseMaterials, 1, Len(old.baseMaterials)) = old.baseMaterials
     /\ Len(new.baseMaterials) > Len(old.baseMaterials) =>
          \A j \in 1..Len(old.baseMaterials) : baseId(old.baseMaterials[j]) # key
     /\ first = {wrapped}

\* C16: after any sequence of createMaterial calls no two baseMaterials
\* have the same baseId and every Material wraps one of them; each call
\* adds one Material at the end of materials, leaves the baseMaterials in
\* the order their baseIds were first created in, and its Material wraps
\* the first BaseMaterial created with the baseId of the call
MaterialsFollowCalls ==
  /\ [](/\ \A j \in 1..Len(scene.materials.baseMaterials) :
            \A k \in 1..Len(scene.materials.baseMaterials) :
              baseId(scene.materials.baseMaterials[j]) = baseId(scene.materials.baseMaterials[k])
                => j = k
        /\ \A m \in 1..Len(scene.materials.materials) :
             scene.materials.materials[m].baseMaterial
               \in 1..Len(scene.materials.baseMaterials))
  /\ [][\A kind \in CallKinds :
          scene'.materials = createMaterial(scene.materials, kind[1], kind[2], kind[3], kind[4])
            => CallFollowed(scene.materials, scene'.materials, kind)]_vars

\* a third Material wraps the first BaseMaterial, created two calls before
\* it with the other transparent flag, and the second Material another one
FirstBaseWrappedAgain ==
  /\ Len(scene.materials.materials) >= 3
  /\ scene.materials.materials[1].baseMaterial = 1
  /\ scene.materials.materials[2].baseMaterial = 2
  /\ scene.materials.materials[3].baseMaterial = 1
  /\ Len(scene.materials.baseMaterials) = 2

\* ------------------------------------------------------------------------
\* Simplifier and SvoxMeshGenerator: the faces merged and the mesh generated
\* ------------------------------------------------------------------------

\* The normals, the ambient occlusion and the vertex colors of a face are
\* what NormalsCalculator, AOCalculator and ColorCombiner left on it. They
\* are numbers computed in floating point; here they are values drawn from
\* small sets, normals and ambient occlusion in thousandths, a color as
\* <<r, g, b>> in thousandths. NoColors is a face whose vertexColors were
\* deleted by combineColors.
NoColors == <<>>
NoFace == [none |-> "face"]

UpNormal == <<0, 0, 1000>>
WhiteColor == <<1000, 1000, 1000>>

\* what the calculators left on the faces of the voxels at the cells with
\* an odd x + y + z; the faces of the other voxels carry UpNormal, no
\* ambient occlusion and WhiteColor on every corner. vertexColors says
\* whether combineColors kept the vertex colors of the faces of the model.
FaceValues ==
  {[vertexColors |-> FALSE, normals |-> <<UpNormal, UpNormal, UpNormal, UpNormal>>,
    ao |-> <<0, 0, 0, 0>>, colors |-> <<WhiteColor, WhiteColor, WhiteColor, WhiteColor>>],
   [vertexColors |-> FALSE, normals |-> <<UpNormal, <<0, 5, 1000>>, UpNormal, UpNormal>>,
    ao |-> <<0, 0, 0, 0>>, colors |-> <<WhiteColor, WhiteColor, WhiteColor, WhiteColor>>],
   [vertexColors |-> FALSE, normals |-> <<UpNormal, UpNormal, <<20, 0, 1000>>, UpNormal>>,
    ao |-> <<0, 0, 0, 0>>, colors |-> <<WhiteColor, WhiteColor, WhiteColor, WhiteColor>>],
   [vertexColors |-> FALSE, normals |-> <<UpNormal, UpNormal, UpNormal, <<0, 0, 980>>>>,
    ao |-> <<0, 0, 0, 0>>, colors |-> <<WhiteColor, WhiteColor, WhiteColor, WhiteColor>>],
   [vertexColors |-> FALSE, normals |-> <<<<0, 10, 1000>>, UpNormal, UpNormal, UpNormal>>,
    ao |-> <<0, 0, 0, 0>>, colors |-> <<WhiteColor, WhiteColor, WhiteColor, WhiteColor>>],
   [vertexColors |-> FALSE, normals |-> <<UpNormal, UpNormal, UpNormal, UpNormal>>,
    ao |-> <<0, 0, 0, 250>>, colors |-> <<WhiteColor, WhiteColor, WhiteColor, WhiteColor>>],
   [vertexColors |-> TRUE, normals |-> <<UpNormal, UpNormal, UpNormal, UpNormal>>,
    ao |-> <<0, 0, 0, 0>>, colors |-> <<WhiteColor, WhiteColor, WhiteColor, WhiteColor>>],
   [vertexColors |-> TRUE, normals |-> <<UpNormal, UpNormal, UpNormal, UpNormal>>,
    ao |-> <<0, 0, 0, 0>>,
    colors |-> <<WhiteColor, WhiteColor, <<1000, 1000, 500>>, WhiteColor>>]}

Abs(n) == IF n < 0 THEN 0 - n ELSE n

\* a _normalEquals that compares the first axis only
normalEqualsX(vector1, vector2) == Abs(vector1[1] - vector2[1]) < 10

\* Simplifier._normalEquals, 0.01 being 10 thousandths
normalEquals(vector1, vector2) ==
  /\ Abs(vector1[1] - vector2[1]) < 10
  /\ Abs(vector1[2] - vector2[2]) < 10
  /\ Abs(vector1[3] - vector2[3]) < 10

\* Simplifier._colorEquals
colorEquals(color1, color2) ==
  /\ color1[1] = color2[1]
  /\ color1[2] = color2[2]
  /\ color1[3] = color2[3]

\* the position of the Vertex object with the given number
positionOf(vertices, vertex) == CHOOSE p \in DOMAIN vertices : vertices[p] = vertex

\* the face objects of the model after the calculators: for each face
\* created its four corner positions and the values left on it
facesOfModel(made, values) ==
  [key \in DOMAIN made.corners |->
     LET odd == (key[1][1] + key[1][2] + key[1][3]) % 2 = 1
         plain == CHOOSE v \in FaceValues :
                    /\ ~v.vertexColors
                    /\ \A i \in 1..4 : v.normals[i] = UpNormal /\ v.ao[i] = 0
     IN [vertices |-> [i \in 1..4 |-> positionOf(made.vertices, made.corners[key][i])],
         normals |-> IF odd THEN values.normals ELSE plain.normals,
         ao |-> IF odd THEN values.ao ELSE plain.ao,
         vertexColors |-> IF ~values.vertexColors THEN NoColors
                          ELSE IF odd THEN values.colors ELSE plain.colors,
         skipped |-> FALSE]]

\* the squared distance of two positions
Distance2(p, q) ==
  (p[1] - q[1]) * (p[1] - q[1]) + (p[2] - q[2]) * (p[2] - q[2])
  + (p[3] - q[3]) * (p[3] - q[3])

\* a comparison of positions that finds any three on one line
onOneLineAlways(lastVertex, vertex, firstVertex, faceLength2, totalLength2) == TRUE

\* lastVertex - (1 - ratio) * vertex - ratio * firstVertex is zero on every
\* axis, ratio being faceLength / totalLength: the comparison of
\* _mergeFaces for positions that are whole numbers, written with the
\* squares of the two lengths. On each axis lastVertex - vertex has to be
\* ratio times firstVertex - vertex; a totalLength of 0 makes the ratio
\* Infinity or NaN and every comparison false.
onOneLine(lastVertex, vertex, firstVertex, faceLength2, totalLength2) ==
  /\ totalLength2 # 0
  /\ \A a \in 1..3 :
       LET part == lastVertex[a] - vertex[a]
           whole == firstVertex[a] - vertex[a]
       IN /\ part * whole >= 0
          /\ part * part * totalLength2 = faceLength2 * whole * whole

\* a comparison of colors that finds any two the same
sameColorAlways(model, c, lastVoxel) == TRUE

\* voxel.color === context.lastVoxel.color of _mergeFaces, for the voxels
\* at the cells c and lastVoxel: the two hold the same Color object
sameColor(model, c, lastVoxel) ==
  model.voxels.cells[c].color = model.voxels.cells[lastVoxel].color

\* Simplifier._mergeFaces(context, voxel, axis1, axis2, axis3, faceName,
\* v0, v1, v2, v3) for the voxel at cell c, context being the k-th of the
\* four; sim holds the faces left, the contexts and the merges done, v the
\* corner numbers counted from 1
mergeFaces(model, sim, k, c, axes, faceName, v) ==
  LET key == <<c, faceName>>
      face == IF key \in DOMAIN sim.faces THEN sim.faces[key] ELSE NoFace
      context == sim.contexts[k]
      lastVoxel == context.lastVoxel
      lastFace == IF context.lastFace = NoFace THEN NoFace
                  ELSE sim.faces[context.lastFace]
      faceLength2 == Distance2(face.vertices[v[2]], face.vertices[v[1]])
      totalLength2 == Distance2(face.vertices[v[2]], lastFace.vertices[v[1]])
  IN IF /\ lastVoxel # NoVoxel
        /\ face # NoFace /\ ~face.skipped /\ lastFace # NoFace
        /\ sameColor(model, c, lastVoxel)
        /\ c[axes[1]] = lastVoxel[axes[1]]
        /\ c[axes[2]] = lastVoxel[axes[2]]
        /\ \A i \in 1..4 : normalEquals(face.normals[i], lastFace.normals[i])
        /\ \/ face.vertexColors = NoColors /\ lastFace.vertexColors = NoColors
           \/ \A i \in 1..4 : colorEquals(face.vertexColors[i], lastFace.vertexColors[i])
        /\ \A i \in 1..4 : face.ao[i] = lastFace.ao[i]
        /\ onOneLine(lastFace.vertices[v[2]], face.vertices[v[2]],
                     lastFace.vertices[v[1]], faceLength2, totalLength2)
        /\ onOneLine(lastFace.vertices[v[3]], face.vertices[v[3]],
                     lastFace.vertices[v[4]], faceLength2, totalLength2)
     THEN [faces |-> [j \in DOMAIN sim.faces \ {key} |->
                        IF j = context.lastFace
                        THEN [lastFace EXCEPT
                                !.vertices[v[2]] = face.vertices[v[2]],
                                !.vertices[v[3]] = face.vertices[v[3]]]
                        ELSE sim.faces[j]],
           contexts |-> sim.contexts,
           merged |-> sim.merged \cup {<<context.lastFace, key>>}]
     ELSE [sim EXCEPT !.contexts[k] =
             [lastVoxel |-> c, lastFace |-> IF face = NoFace THEN NoFace ELSE key]]

\* clearContexts() of simplify
clearContexts(sim) ==
  [sim EXCEPT !.contexts = [k \in 1..4 |-> [@[k] EXCEPT !.lastVoxel = NoVoxel]]]

\* the three loops of simplify: the axes x, y, z as 1, 2, 3 with the axis
\* moved along last, and the four _mergeFaces calls of the loop body
SWEEPS ==
  <<[axes |-> <<1, 3, 2>>,
     calls |-> <<<<"nx", <<1, 2, 3, 4>>>>, <<"px", <<1, 2, 3, 4>>>>,
                 <<"nz", <<1, 2, 3, 4>>>>, <<"pz", <<1, 2, 3, 4>>>>>>],
    [axes |-> <<1, 2, 3>>,
     calls |-> <<<<"nx", <<2, 3, 4, 1>>>>, <<"px", <<4, 1, 2, 3>>>>,
                 <<"ny", <<1, 2, 3, 4>>>>, <<"py", <<3, 4, 1, 2>>>>>>],
    [axes |-> <<2, 3, 1>>,
     calls |-> <<<<"ny", <<2, 3, 4, 1>>>>, <<"py", <<2, 3, 4, 1>>>>,
                 <<"nz", <<4, 1, 2, 3>>>>, <<"pz", <<2, 3, 4, 1>>>>>>]>>

\* the cells of the bounding box in the order of the three nested loops
loopOrder(b, axes) ==
  LET lo == <<b.minX, b.minY, b.minZ>>
      hi == <<b.maxX, b.maxY, b.maxZ>>
      size(a) == hi[a] - lo[a] + 1
      cell(n) ==
        LET i1 == n \div (size(axes[2]) * size(axes[3]))
            i2 == (n \div size(axes[3])) % size(axes[2])
            i3 == n % size(axes[3])
        IN [a \in 1..3 |-> IF a = axes[1] THEN lo[a] + i1
                           ELSE IF a = axes[2] THEN lo[a] + i2 ELSE lo[a] + i3]
  IN [n \in 1..(size(1) * size(2) * size(3)) |-> cell(n - 1)]

\* the body of a loop of simplify for one cell
RECURSIVE mergeCalls(_, _, _, _, _)
mergeCalls(model, sim, c, sweep, k) ==
  IF k > 4 THEN sim
  ELSE LET next == mergeFaces(model, sim, k, c, sweep.axes,
                              sweep.calls[k][1], sweep.calls[k][2])
       IN IF next.merged = {} \/ next.merged # {}
          THEN mergeCalls(model, next, c, sweep, k + 1) ELSE sim

RECURSIVE sweepCells(_, _, _, _)
sweepCells(model, sim, sweep, todo) ==
  IF todo = <<>> THEN sim
  ELSE LET c == Head(todo)
           next == IF c \in DOMAIN model.voxels.cells
                   THEN mergeCalls(model, sim, c, sweep, 1)
                   ELSE clearContexts(sim)
       IN IF next.merged = {} \/ next.merged # {}
          THEN sweepCells(model, next, sweep, Tail(todo)) ELSE sim

\* Simplifier.simplify(model) on the faces of the model
simplify(model, faces) ==
  LET fresh == [faces |-> faces,
                contexts |-> [k \in 1..4 |-> [lastVoxel |-> NoVoxel, lastFace |-> NoFace]],
                merged |-> {}]
      first == sweepCells(model, fresh, SWEEPS[1], loopOrder(model.voxels.bounds, SWEEPS[1].axes))
      second == sweepCells(model, clearContexts(first), SWEEPS[2],
                           loopOrder(model.voxels.bounds, SWEEPS[2].axes))
  IN sweepCells(model, clearContexts(second), SWEEPS[3],
                loopOrder(model.voxels.bounds, SWEEPS[3].axes))

\* baseMaterial.colorUsageCount: the faces created for voxels in a color of
\* a material of the k-th base material
colorUsageCount(model, created, k) ==
  Cardinality({key \in created :
     model.materials.materials[model.voxels.cells[key[1]].color.material].baseMaterial = k})

\* the value of a hexadecimal digit
HexDigitValue(c) ==
  IF c \in Digit THEN DigitValue(c)
  ELSE CASE c = "A" -> 10 [] c = "B" -> 11 [] c = "C" -> 12
         [] c = "D" -> 13 [] c = "E" -> 14 [] c = "F" -> 15

\* color.r, color.g and color.b as Color._set leaves them, in thousandths
rgbOf(color) ==
  LET digits == Tail(color.color)
      six == IF Len(digits) = 3
             THEN <<digits[1], digits[1], digits[2], digits[2], digits[3], digits[3]>>
             ELSE digits
  IN [i \in 1..3 |->
        ((16 * HexDigitValue(six[2 * i - 1]) + HexDigitValue(six[2 * i])) * 1000) \div 255]

\* buffer.push(a.x, a.y, a.z) for each of the values, in order
pushed(values) ==
  [n \in 1..(3 * Len(values)) |-> values[((n - 1) \div 3) + 1][((n - 1) % 3) + 1]]

\* a material.index that is 0 for every base material
indexOfZero(model, created, k) == 0

\* material.index as generate sets it: the number of base materials in use
\* before the k-th, and the 0 of the constructor for one not in use
indexOf(model, created, k) ==
  IF colorUsageCount(model, created, k) > 0
  THEN Cardinality({j \in 1..(k - 1) : colorUsageCount(model, created, j) > 0})
  ELSE 0

\* voxel.material.index
indexOfVoxel(model, created, c) ==
  indexOf(model, created,
          model.materials.materials[model.voxels.cells[c].color.material].baseMaterial)

\* SvoxMeshGenerator._generateVoxelFace for a material with flat lighting
\* and the front side, without uvs: two triangles are pushed; emitted lists
\* the faces pushed
generateVoxelFace(model, key, face, mesh) ==
  LET vert == face.vertices
      norm == face.normals
      col == face.vertexColors
      color == rgbOf(model.voxels.cells[key[1]].color)
  IN [mesh EXCEPT
        !.positions = @ \o pushed(<<vert[3], vert[2], vert[1]>>)
                        \o pushed(<<vert[1], vert[4], vert[3]>>),
        !.normals = @ \o pushed(<<norm[2], norm[2], norm[2]>>)
                      \o pushed(<<norm[4], norm[4], norm[4]>>),
        !.colors = @ \o (IF col # NoColors
                         THEN pushed(<<col[3], col[2], col[1]>>)
                                \o pushed(<<col[1], col[4], col[3]>>)
                         ELSE pushed(<<color, color, color, color, color, color>>)),
        !.emitted = Append(@, key)]

\* SvoxMeshGenerator._generateVoxel from the f-th face name on
RECURSIVE generateVoxel(_, _, _, _, _)
generateVoxel(model, c, faces, mesh, f) ==
  IF f > Len(FACES) THEN mesh
  ELSE LET key == <<c, FACES[f]>>
           next == IF key \in DOMAIN faces /\ ~faces[key].skipped
                   THEN generateVoxelFace(model, key, faces[key], mesh)
                   ELSE mesh
       IN IF Len(next.emitted) >= 0
          THEN generateVoxel(model, c, faces, next, f + 1) ELSE mesh

\* model.voxels.forEach of _generateAll for the base material with the
\* given index, over the voxels todo
RECURSIVE generateVoxels(_, _, _, _, _, _)
generateVoxels(model, created, faces, index, mesh, todo) ==
  IF todo = <<>> THEN mesh
  ELSE LET next == IF indexOfVoxel(model, created, Head(todo)) = index
                   THEN generateVoxel(model, Head(todo), faces, mesh, 1)
                   ELSE mesh
       IN IF Len(next.emitted) >= 0
          THEN generateVoxels(model, created, faces, index, next, Tail(todo)) ELSE mesh

\* the group _generateAll pushes after the voxels of a base material
groupPushed(before, after, index) ==
  [after EXCEPT !.groups = Append(@,
     [start |-> Len(before.positions) \div 3,
      count |-> (Len(after.positions) - Len(before.positions)) \div 3,
      materialIndex |-> index])]

\* SvoxMeshGenerator._generateAll from the k-th base material on, for a
\* model without shells
RECURSIVE generateGroups(_, _, _, _, _)
generateGroups(model, created, faces, k, mesh) ==
  IF k > Len(model.materials.baseMaterials) THEN mesh
  ELSE IF colorUsageCount(model, created, k) > 0
  THEN generateGroups(model, created, faces, k + 1,
         groupPushed(mesh,
           generateVoxels(model, created, faces, indexOf(model, created, k), mesh,
                          forEachOrder(DOMAIN model.voxels.cells)),
           indexOf(model, created, k)))
  ELSE generateGroups(model, created, faces, k + 1, mesh)

\* the base materials in use, in the order of baseMaterials: what generate
\* pushes to mesh.materials
materialsInUse(model, created) ==
  SelectSeq([j \in 1..Len(model.materials.baseMaterials) |-> j],
            LAMBDA j : colorUsageCount(model, created, j) > 0)

\* the mesh generate returns for a model without lights, maps and shells
generateMesh(model, created, faces) ==
  generateGroups(model, created, faces, 1,
    [materials |-> materialsInUse(model, created), groups |-> <<>>,
     positions |-> <<>>, normals |-> <<>>, colors |-> <<>>, emitted |-> <<>>])

\* _generateAll: the triangles that _generateVoxelFace pushes, two for each
\* face that is left on a voxel and not skipped
RECURSIVE generateAll(_, _, _, _)
generateAll(model, created, faces, k) ==
  IF k > Len(model.materials.baseMaterials) THEN 0
  ELSE (IF colorUsageCount(model, created, k) > 0
        THEN 2 * Cardinality({key \in DOMAIN faces :
               /\ indexOf(model, created,
                    model.materials.materials[model.voxels.cells[key[1]].color.material].baseMaterial)
                  = indexOf(model, created, k)
               /\ ~faces[key].skipped})
        ELSE 0)
       + generateAll(model, created, faces, k + 1)

\* SvoxMeshGenerator.generate(model) of a model that has not been rendered
\* yet: prepareForRender with its simplify, then _generateAll
Generate ==
  /\ facesCreated = NotRun
  /\ scene.voxels.count > 0
  /\ \E values \in FaceValues :
     \E prepared \in {ModelPrepareForWrite(scene)} :
     \E made \in {createFaces(prepared, [vertices |-> <<>>, objects |-> scene.objects,
                                        corners |-> <<>>],
                               forEachOrder(DOMAIN prepared.voxels.cells), 1)} :
     \E sim \in {simplify(prepared, facesOfModel(made, values))} :
       /\ scene' = [prepared EXCEPT
             !.voxels.cells =
               [c \in DOMAIN prepared.voxels.cells |->
                  [prepared.voxels.cells[c] EXCEPT
                     !.faces = {f \in @ \cup facesOf(made.corners, c) :
                                  <<c, f>> \in DOMAIN sim.faces
                                  \/ <<c, f>> \notin DOMAIN made.corners},
                     !.visible = facesOf(made.corners, c) # {}]],
             !.vertices = made.vertices,
             !.objects = made.objects]
       /\ facesCreated' = [throw |-> "none",
             faces |-> DOMAIN made.corners,
             corners |-> made.corners,
             earlier |-> scene.objects,
             values |-> facesOfModel(made, values),
             left |-> [key \in DOMAIN sim.faces |-> sim.faces[key].vertices],
             merged |-> sim.merged,
             triangles |-> generateAll(prepared, DOMAIN made.corners, sim.faces, 1),
             mesh |-> generateMesh(prepared, DOMAIN made.corners, sim.faces)]
  /\ UNCHANGED <<textVars, writeVars, svoxVars, callVars>>

MeshNext == CreateRerenderMaterial \/ RenderSetVoxel \/ Generate

SpecMesh == RenderInit /\ [][MeshNext]_vars

\* four positions that go around a square with sides of length 1
UnitSquare(ps) ==
  /\ \A i \in 1..4 : Distance2(ps[i], ps[(i % 4) + 1]) = 1
  /\ Distance2(ps[1], ps[3]) = 2 /\ Distance2(ps[2], ps[4]) = 2
  /\ \E a \in 1..3 : \A i \in 1..4 : ps[i][a] = ps[1][a]

\* the eight corners of the unit cube of the voxel at cell c
CubeCorners(c) ==
  {<<c[1] + d[1], c[2] + d[2], c[3] + d[3]>> : d \in {0, 1} \X {0, 1} \X {0, 1}}

\* the model generated holds one voxel, of an opaque material
SingleOpaqueVoxel ==
  /\ facesCreated # NotRun
  /\ Cardinality(DOMAIN scene.voxels.cells) = 1
  /\ \A c \in DOMAIN scene.voxels.cells : OpaqueSolid(scene.voxels.cells[c])

\* C17: when generate has run on a model that holds a single opaque voxel,
\* six faces were created, one for each side, and six are left; each face
\* has four different Vertex objects at four positions that go around a
\* unit square; the positions of all faces are the eight corners of the
\* unit cube of the voxel; the mesh holds twelve triangles
SingleVoxelIsACube ==
  SingleOpaqueVoxel =>
    \A c \in DOMAIN scene.voxels.cells :
      /\ facesCreated.faces = {<<c, FACES[f]>> : f \in 1..Len(FACES)}
      /\ Cardinality(facesCreated.faces) = 6
      /\ DOMAIN facesCreated.left = facesCreated.faces
      /\ scene.voxels.cells[c].faces = {FACES[f] : f \in 1..Len(FACES)}
      /\ \A key \in facesCreated.faces :
           /\ Cardinality({facesCreated.corners[key][i] : i \in 1..4}) = 4
           /\ Cardinality({facesCreated.left[key][i] : i \in 1..4}) = 4
           /\ UnitSquare(facesCreated.left[key])
      /\ UNION {{facesCreated.left[key][i] : i \in 1..4} : key \in facesCreated.faces}
           = CubeCorners(c)
      /\ facesCreated.triangles = 12

\* generate has run on a model whose only voxel, opaque, is at <<0, 1, 0>>
SingleVoxelGenerated ==
  /\ SingleOpaqueVoxel
  /\ DOMAIN scene.voxels.cells = {<<0, 1, 0>>}
  /\ facesCreated.triangles > 0

\* the model generated holds two voxels next to each other along x, both
\* of an opaque material, in two different colors
TwoColorsSideBySide(c, d) ==
  /\ facesCreated # NotRun
  /\ DOMAIN scene.voxels.cells = {c, d}
  /\ d = <<c[1] + 1, c[2], c[3]>>
  /\ OpaqueSolid(scene.voxels.cells[c]) /\ OpaqueSolid(scene.voxels.cells[d])
  /\ scene.voxels.cells[c].color # scene.voxels.cells[d].color
  /\ scene.voxels.cells[c].color.color # scene.voxels.cells[d].color.color

\* C18: when generate has run on a model of two voxels next to each other
\* along x, both opaque and not wireframe, in two different colors, no
\* face was created between the two, the five other sides of each were,
\* simplify merged no face, so that ten faces are left, each a unit square
\* on the cube of its own voxel, and the mesh holds twenty triangles
TwoColorsKeepTenFaces ==
  \A c, d \in RenderCells :
    TwoColorsSideBySide(c, d) =>
      /\ <<c, "px">> \notin facesCreated.faces
      /\ <<d, "nx">> \notin facesCreated.faces
      /\ facesCreated.faces =
           ({<<c, FACES[f]>> : f \in 1..Len(FACES)}
              \cup {<<d, FACES[f]>> : f \in 1..Len(FACES)})
           \ {<<c, "px">>, <<d, "nx">>}
      /\ facesCreated.merged = {}
      /\ DOMAIN facesCreated.left = facesCreated.faces
      /\ Cardinality(DOMAIN facesCreated.left) = 10
      /\ \A key \in DOMAIN facesCreated.left :
           /\ UnitSquare(facesCreated.left[key])
           /\ \A i \in 1..4 : facesCreated.left[key][i] \in CubeCorners(key[1])
      /\ Cardinality(scene.voxels.cells[c].faces) = 5
      /\ Cardinality(scene.voxels.cells[d].faces) = 5
      /\ facesCreated.triangles = 20

\* generate has run on two opaque voxels in two colors next to each other
\* along x whose faces carry the same normals, ambient occlusion and vertex
\* colors
TwoColorsGenerated ==
  /\ TwoColorsSideBySide(<<0, 0, 0>>, <<1, 0, 0>>)
  /\ \A j, k \in DOMAIN facesCreated.values :
       /\ facesCreated.values[j].normals = facesCreated.values[k].normals
       /\ facesCreated.values[j].ao = facesCreated.values[k].ao
       /\ facesCreated.values[j].vertexColors = facesCreated.values[k].vertexColors

\* C19: whenever simplify has merged a face into another, in any of its
\* three loops, the voxels of the two faces have the same color, the
\* normals of the two at each of the four corners differ by at most 0.01
\* on each axis, the two have the same vertex colors at each corner, or
\* none, and the same ambient occlusion at each corner
MergedFacesAgree ==
  facesCreated # NotRun =>
    \A pair \in facesCreated.merged :
      LET last == facesCreated.values[pair[1]]
          face == facesCreated.values[pair[2]]
      IN /\ scene.voxels.cells[pair[1][1]].color = scene.voxels.cells[pair[2][1]].color
         /\ \A i \in 1..4 : \A a \in 1..3 :
              Abs(face.normals[i][a] - last.normals[i][a]) <= 10
         /\ face.vertexColors = last.vertexColors
         /\ \A i \in 1..4 : face.ao[i] = last.ao[i]

\* simplify has merged two faces whose normals are not the same
NearlyEqualFacesMerged ==
  /\ facesCreated # NotRun
  /\ \E pair \in facesCreated.merged :
       facesCreated.values[pair[1]].normals # facesCreated.values[pair[2]].normals

\* ------------------------------------------------------------------------
\* The settings of the model block, read, written and read again
\* ------------------------------------------------------------------------

MaxSettings == 2   \* the most settings in the model block of a text

\* the settings a text may hold, values the reader accepts and values it
\* rejects
SettingLines ==
  <<Setting("scale", <<"2">>),
    Setting("scale", <<"0", ".", "5", " ", "1", " ", "2">>),
    Setting("scale", <<"1">>),
    Setting("scale", <<"1", " ", "2">>),
    Setting("rotation", <<"0", " ", "9", "0", " ", "0">>),
    Setting("rotation", <<"9", "0">>),
    Setting("position", <<"1", " ", "0", " ", "0", ".", "5">>),
    Setting("shape", <<"s", "p", "h", "e", "r", "e">>),
    Setting("shape", <<"b", "o", "x">>),
    Setting("shape", <<"c", "o", "n", "e">>),
    Setting("autoresize", <<"t", "r", "u", "e">>),
    Setting("autoresize", <<"f", "a", "l", "s", "e">>),
    Setting("wireframe", <<"t", "r", "u", "e">>),
    Setting("origin", <<"-", "y">>),
    Setting("origin", <<"x", " ", "y", " ", "z">>),
    Setting("origin", <<"n", "o", "n", "e">>),
    Setting("origin", <<"q">>),
    Setting("flatten", <<"+", "x">>),
    Setting("clamp", <<"y">>),
    Setting("skip", <<"-", "z", " ", "+", "z">>),
    Setting("tile", <<"x">>),
    Setting("tile", <<"-", "x">>),
    Setting("ao", <<"5", " ", "1">>),
    Setting("ao", <<"#", "f", "0", "0", " ", "5", " ", "1">>),
    Setting("ao", <<"5", " ", "0", ".", "5", " ", "8", "0">>),
    Setting("ao", <<"#", "0", "0", "0", " ", "3", " ", "1", " ", "7", "0">>),
    Setting("aosides", <<"-", "y">>),
    Setting("aosides", <<"n", "o", "n", "e">>),
    Setting("aosamples", <<"1", "0", "0">>),
    Setting("aosamples", <<"5", "0">>)>>

\* the sequences of up to n numbers of lines of SettingLines, increasing
RECURSIVE Increasing(_)
Increasing(n) ==
  IF n = 0 THEN {<<>>}
  ELSE Increasing(n - 1) \cup
       {Append(q, i) : <<q, i>> \in
          {pair \in Increasing(n - 1) \X (1..Len(SettingLines)) :
             /\ Len(pair[1]) = n - 1
             /\ pair[1] = <<>> \/ pair[1][Len(pair[1])] < pair[2]}}

\* the text of a model of one voxel with the settings chosen:
\*   model / size = 1 / settings / material / colors = A:#f80 / voxels / A
SettingsText(chosen) ==
  <<BlockLine("model"), Setting("size", <<"1">>)>>
  \o [k \in 1..Len(chosen) |-> SettingLines[chosen[k]]]
  \o <<BlockLine("material"),
       Setting("colors", <<"A", ":", "#", "f", "8", "0">>),
       BlockLine("voxels"), MatrixLine(<<"A">>)>>

SettingsInit ==
  /\ TextGiven({SettingsText(chosen) : chosen \in Increasing(MaxSettings)})
  /\ WriteIdle /\ CallIdle /\ SvoxIdle /\ RenderIdle

SpecSettings == SettingsInit /\ [][TextNext]_vars

\* the settings of the model block that the claim names
SettingNames ==
  {"scale", "rotation", "position", "shape", "autoResize", "wireframe", "origin",
   "flatten", "clamp", "skip", "tile", "aoSides", "ao", "aoSamples"}

\* the text written was read again and the settings in names have the
\* values of the model that was written
SettingsKept(names) ==
  reread # NotRun =>
    /\ reread.throw = "none"
    /\ \A n \in names : reread.model.settings[n] = firstRead.model.settings[n]

\* C20: when a text was read, the model written and the text written read
\* again, the second read succeeds and scale, rotation, position, shape,
\* autoresize, wireframe, origin, flatten, clamp, skip, tile, aosides, ao
\* and aosamples have the values the first read gave them
SettingsRoundTrip == SettingsKept(SettingNames)

\* all settings but aosides and aosamples have the values of the first read
OtherSettingsRoundTrip == SettingsKept(SettingNames \ {"aoSides", "aoSamples"})

\* ------------------------------------------------------------------------
\* Planar called directly: parse of a value, toString of what parse
\* returned, and parse of that string
\* ------------------------------------------------------------------------
MaxPieces == 3

\* the pieces the values given to Planar.parse are put together from: the
\* words of a planar expression, white space, an upper case word and a
\* word that no planar expression has
PlanarPieces ==
  PlanarWords \cup {<<c>> : c \in WhiteSpaceChars} \cup {<<"X">>, <<"q">>}

RECURSIVE Concat(_)
Concat(pieces) == IF pieces = <<>> THEN <<>> ELSE Head(pieces) \o Concat(Tail(pieces))

PlanarValues == {Concat(pieces) : pieces \in UNION {[1..n -> PlanarPieces] : n \in 0..MaxPieces}}

PlanarInit ==
  /\ TextGiven({<<>>})
  /\ WriteIdle /\ SvoxIdle /\ RenderIdle
  /\ receiver \in PlanarValues
  /\ outcome = NotRun

\* outcome = Planar.parse(receiver)
CallPlanarParse ==
  /\ outcome = NotRun
  /\ outcome' = Planar_parse(Str(receiver)) @@ [step |-> "parse", string |-> <<>>, again |-> NotRun]
  /\ UNCHANGED <<textVars, writeVars, svoxVars, renderVars, receiver>>

\* Planar.toString of the planar object parse returned
CallPlanarToString ==
  /\ outcome # NotRun /\ outcome.throw = "none" /\ outcome.step = "parse"
  /\ outcome' = [outcome EXCEPT !.step = "toString",
                                !.string = Planar_toString(outcome.planar)]
  /\ UNCHANGED <<textVars, writeVars, svoxVars, renderVars, receiver>>

\* Planar.parse of the string toString returned
CallPlanarParseAgain ==
  /\ outcome # NotRun /\ outcome.throw = "none"
  /\ outcome.step = "toString"
  /\ outcome' = [outcome EXCEPT !.step = "parseAgain",
                                !.again = Planar_parse(Str(outcome.string))]
  /\ UNCHANGED <<textVars, writeVars, svoxVars, renderVars, receiver>>

PlanarNext == CallPlanarParse \/ CallPlanarToString \/ CallPlanarParseAgain

SpecPlanar == PlanarInit /\ [][PlanarNext]_vars

\* the words of a value: what stands between its white space, in lower case
TokensOf(value) ==
  {toLowerCase(w) : w \in {u \in {split(value, WhiteSpaceChars, TRUE)[k] :
                                     k \in 1..Len(split(value, WhiteSpaceChars, TRUE))} :
                            u # <<>>}}

\* the word of a property of a planar object
TokenOf(name) ==
  LET k == CHOOSE j \in 1..Len(PlanarSides) : PlanarSides[j].name = name
  IN PlanarSides[k].write

PlanarNames == {PlanarSides[k].name : k \in 1..Len(PlanarSides)}

\* C21: Planar.parse accepts exactly the values that are words none, -x, x,
\* +x, -y, y, +y, -z, z, +z separated by white space of any kind; in what
\* it returns for an accepted value a property is true exactly when its
\* word occurs in the value; every other value raises a SyntaxError
ParseFollowsTokens ==
  outcome # NotRun =>
    /\ outcome.throw = "none" <=> TokensOf(receiver) \subseteq PlanarWords
    /\ outcome.throw # "none" => outcome.throw = SyntaxError
    /\ outcome.throw = "none" =>
         \A name \in PlanarNames :
           name \in outcome.planar <=> TokenOf(name) \in TokensOf(receiver)

\* C21 for values whose white space is the space only
ParseFollowsTokensOfSpaces ==
  (outcome # NotRun /\ \A k \in 1..Len(receiver) : receiver[k] \notin {"\t", "\n"}) =>
    /\ outcome.throw = "none" <=> TokensOf(receiver) \subseteq PlanarWords
    /\ outcome.throw # "none" => outcome.throw = SyntaxError
    /\ outcome.throw = "none" =>
         \A name \in PlanarNames :
           name \in outcome.planar <=> TokenOf(name) \in TokensOf(receiver)

\* the words of the properties of a planar object that are true, in the
\* order nx, x, px, ny, y, py, nz, z, pz
WordsInOrder(planar) ==
  LET set == SelectSeq(PlanarSides, LAMBDA side : side.name \in planar)
  IN [i \in 1..Len(set) |-> set[i].write]

\* C22: parse of what toString wrote for a planar object parse returned
\* gives the same nine values; toString writes the words of the properties
\* that are true and no other, in the order nx, x, px, ny, y, py, nz, z,
\* pz; parse of the empty string gives nine values that are false
PlanarRoundTrip ==
  outcome # NotRun =>
    /\ receiver = <<>> => outcome.throw = "none" /\ outcome.planar = {}
    /\ (outcome.throw = "none" /\ outcome.step # "parse") =>
         IF outcome.planar = {} THEN outcome.string = <<>>
         ELSE split(outcome.string, {" "}, FALSE) = WordsInOrder(outcome.planar)
    /\ (outcome.throw = "none" /\ outcome.step = "parseAgain") =>
         /\ outcome.again.throw = "none"
         /\ outcome.again.planar = outcome.planar

\* a planar object with several properties went through toString and parse
SeveralSidesRoundTrip ==
  /\ outcome # NotRun /\ outcome.throw = "none" /\ outcome.step = "parseAgain"
  /\ {"nx", "x"} \subseteq outcome.planar

\* ------------------------------------------------------------------------
\* A BoundingBox called directly: new BoundingBox(), reset, set and size
\* ------------------------------------------------------------------------
MaxSets == 2

BoxCoordinates == {-1, 0, 2}

\* receiver.box is the BoundingBox; receiver.coordinates are those set was
\* called with since the box was made or reset last
BoxInit ==
  /\ TextGiven({<<>>})
  /\ WriteIdle /\ SvoxIdle /\ RenderIdle
  /\ receiver = [box |-> NewBoundingBox, coordinates |-> <<>>, resets |-> 0]
  /\ outcome = NotRun

\* box.reset()
BoxReset ==
  /\ outcome = NotRun /\ receiver.resets < MaxSets
  /\ receiver' = [box |-> BoundingBoxReset, coordinates |-> <<>>,
                  resets |-> receiver.resets + 1]
  /\ UNCHANGED <<textVars, writeVars, svoxVars, renderVars, outcome>>

\* box.set(x, y, z)
BoxSet ==
  /\ outcome = NotRun /\ Len(receiver.coordinates) < MaxSets
  /\ \E x \in BoxCoordinates, y \in BoxCoordinates, z \in BoxCoordinates :
       receiver' = [receiver EXCEPT
                      !.box = BoundingBoxSetAny(@, x, y, z),
                      !.coordinates = Append(@, <<x, y, z>>)]
  /\ UNCHANGED <<textVars, writeVars, svoxVars, renderVars, outcome>>

\* outcome = box.size, asked once after the other calls, with the
\* coordinates set before it was asked
BoxSize ==
  /\ outcome = NotRun
  /\ outcome' = [throw |-> "none", size |-> BoundingBoxSizeAny(receiver.box),
                 coordinates |-> receiver.coordinates, resets |-> receiver.resets]
  /\ UNCHANGED <<textVars, writeVars, svoxVars, renderVars, receiver>>

BoxNext == BoxReset \/ BoxSet \/ BoxSize

SpecBox == BoxInit /\ [][BoxNext]_vars

\* max - min + 1 of the coordinates on axis k
ExtentOf(coordinates, k) ==
  LET on == {coordinates[i][k] : i \in 1..Len(coordinates)}
  IN (CHOOSE a \in on : \A b \in on : a >= b)
     - (CHOOSE a \in on : \A b \in on : a <= b) + 1

\* the size the box has to report for the coordinates set
SizeOf(coordinates) ==
  IF coordinates = <<>> THEN <<0, 0, 0>>
  ELSE [k \in 1..3 |-> ExtentOf(coordinates, k)]

\* C23: a BoundingBox on which set was never called, a new one included,
\* reports the size 0, 0, 0; after calls of set it reports max - min + 1 on
\* each axis over the coordinates set since the last reset
SizeFollowsSets ==
  outcome # NotRun =>
    /\ ~outcome.size.nan
    /\ outcome.size.xyz = SizeOf(outcome.coordinates)

\* C23 for a box that was reset at least once
SizeFollowsSetsAfterReset ==
  (outcome # NotRun /\ outcome.resets > 0) =>
    /\ ~outcome.size.nan
    /\ outcome.size.xyz = SizeOf(outcome.coordinates)

\* ------------------------------------------------------------------------
\* Model._createVertex: the deform, warp and scatter a vertex keeps, and
\* Deformer.warpAndScatter with SVOX.Noise.
\* Lengths are in hundredths of a voxel; Math.random() returns 0 .. 99
\* hundredths. A material setting is None or a record.
\* ------------------------------------------------------------------------
None == [none |-> TRUE]

\* Model._getDeformIntegral for a damping of 1 or of one half, as the
\* fraction <<numerator, denominator>>: strength * (count + 1), or
\* strength * (1 - damping ^ (count + 1)) / (1 - damping)
getDeformIntegral(deform) ==
  IF deform.damping = 100 THEN <<deform.strength * (deform.count + 1), 1>>
  ELSE <<deform.strength * (2 ^ (deform.count + 1) - 1), 2 ^ deform.count>>

\* a < b for two fractions with positive denominators
Less(a, b) == a[1] * b[2] < b[1] * a[2]

\* the vertex _createVertex returns for a voxel of the material, from the
\* vertex _getVertex found (None when there is none)
createVertexOf(vertex, material) ==
  IF vertex = None
  THEN [deform |-> material.deform, warp |-> material.warp,
        scatter |-> material.scatter, count |-> 1]
  ELSE [deform |->
          IF material.deform = None THEN None
          ELSE IF vertex.deform # None
                  /\ Less(getDeformIntegral(material.deform),
                          getDeformIntegral(vertex.deform))
          THEN material.deform ELSE vertex.deform,
        warp |->
          IF material.warp = None THEN None
          ELSE IF vertex.warp # None
                  /\ \/ material.warp.amplitude < vertex.warp.amplitude
                     \/ /\ material.warp.amplitude = vertex.warp.amplitude
                        /\ material.warp.frequency > vertex.warp.frequency
          THEN material.warp ELSE vertex.warp,
        scatter |->
          IF material.scatter = None THEN None
          ELSE IF vertex.scatter # None
                  /\ Abs(material.scatter.v) < Abs(vertex.scatter.v)
          THEN material.scatter ELSE vertex.scatter,
        count |-> vertex.count]

\* the table p of SVOX.Noise() from the first 256 values of Math.random()
NoiseTable(drawn) == [i \in 0..511 |-> (drawn[(i % 256) + 1] * 256) \div 100]

\* grad of SVOX.Noise
grad(hash, x, y, z) ==
  LET h == hash % 16
      u == IF h < 8 THEN x ELSE y
      v == IF h < 4 THEN y ELSE IF h = 12 \/ h = 14 THEN x ELSE z
  IN (IF h % 2 = 0 THEN u ELSE 0 - u) + (IF (h \div 2) % 2 = 0 THEN v ELSE 0 - v)

\* noise of SVOX.Noise, without the interpolation between the eight
\* corners of the cell: the gradient of the first corner, found through
\* p[X], p[A] and p[AA], at the place in the cell
noise(table, x, y, z) ==
  LET A == table[(x \div 100) % 256] + ((y \div 100) % 256)
      AA == table[A] + ((z \div 100) % 256)
  IN grad(table[AA], x % 100, y % 100, z % 100)

\* let scatter = vertex.scatter || 0 that takes every vertex as scattered
scatterOfAny(vertex) == 50

\* let scatter = vertex.scatter || 0
scatterOf(vertex) == IF vertex.scatter = None THEN 0 ELSE vertex.scatter.v

\* the tiling test of warpAndScatter
onTiledEdge(model, at) ==
  \/ "nx" \in model.tile /\ 100 * at[1] < 100 * model.min[1] + 10
  \/ "px" \in model.tile /\ 100 * at[1] > 100 * model.max[1] + 90
  \/ "ny" \in model.tile /\ 100 * at[2] < 100 * model.min[2] + 10
  \/ "py" \in model.tile /\ 100 * at[2] > 100 * model.max[2] + 90
  \/ "nz" \in model.tile /\ 100 * at[3] < 100 * model.min[3] + 10
  \/ "pz" \in model.tile /\ 100 * at[3] > 100 * model.max[3] + 90

\* the function given to forEachVertex by warpAndScatter for the vertex at
\* a coordinate: the place the vertex moves to and the number of values
\* taken from Math.random(), from value number next on
warpAndScatterVertex(model, table, source, next, at) ==
  LET vertex == model.vertices[at]
      amplitude == IF vertex.warp = None THEN 0 ELSE vertex.warp.amplitude
      frequency == IF vertex.warp = None THEN 0 ELSE vertex.warp.frequency
      scatter == scatterOf(vertex)
      x == 100 * at[1]
      y == 100 * at[2]
      z == 100 * at[3]
      warped ==
        IF amplitude = 0 THEN <<0, 0, 0>>
        ELSE <<(noise(table, (x + 19) * frequency, y * frequency, z * frequency)
                  * amplitude) \div 100,
               (noise(table, (y + 17) * frequency, z * frequency, x * frequency)
                  * amplitude) \div 100,
               (noise(table, (z + 13) * frequency, x * frequency, y * frequency)
                  * amplitude) \div 100>>
      scattered ==
        IF scatter = 0 THEN <<0, 0, 0>>
        ELSE [k \in 1..3 |-> ((source[next + k - 1] * 2 - 100) * scatter) \div 100]
  IN IF onTiledEdge(model, at) \/ (amplitude = 0 /\ scatter = 0)
     THEN [position |-> <<x, y, z>>, taken |-> 0]
     ELSE [position |-> <<x + warped[1] + scattered[1], y + warped[2] + scattered[2],
                          z + warped[3] + scattered[3]>>,
           taken |-> IF scatter = 0 THEN 0 ELSE 3]

\* model.forEachVertex of warpAndScatter over the vertices left, in the
\* order of the index
RECURSIVE warpAndScatterFrom(_, _, _, _, _, _)
warpAndScatterFrom(model, table, source, next, order, positions) ==
  IF order = <<>> THEN [positions |-> positions, drawn |-> SubSeq(source, 1, next - 1)]
  ELSE LET moved == warpAndScatterVertex(model, table, source, next, Head(order))
       IN IF moved.taken >= 0 /\ Head(order) \notin DOMAIN positions
          THEN warpAndScatterFrom(model, table, source, next + moved.taken, Tail(order),
                                  Put(positions, Head(order), moved.position))
          ELSE [positions |-> positions, drawn |-> SubSeq(source, 1, next - 1)]

\* Deformer.warpAndScatter: SVOX.Noise() takes 256 values, then the
\* vertices take theirs
warpAndScatter(model, source) ==
  warpAndScatterFrom(model, NoiseTable(source), source, 257,
                     forEachOrder(DOMAIN model.vertices), <<>>)

\* the vertices createFaces makes for the voxels of a model whose
\* materials are opaque: _createVertex for the four corners of each face
\* that has no voxel next to it
RECURSIVE createVertices(_, _, _, _, _)
\* (the test has the vertices made so far worked out before the next)
createVerticesNext(model, vertices, cells, f, vi, at) ==
  IF at \in DOMAIN vertices \/ vertices = vertices
  THEN createVertices(model,
         Put(vertices, at,
             createVertexOf(IF at \in DOMAIN vertices THEN vertices[at] ELSE None,
                            model.voxels[Head(cells)])),
         cells, f, vi + 1)
  ELSE vertices

createVertices(model, vertices, cells, f, vi) ==
  IF cells = <<>> THEN vertices
  ELSE IF f > Len(FACES) THEN createVertices(model, vertices, Tail(cells), 1, 1)
  ELSE IF vi > 4 \/ <<Head(cells)[1] + NEIGHBORS[FACES[f]][1],
                     Head(cells)[2] + NEIGHBORS[FACES[f]][2],
                     Head(cells)[3] + NEIGHBORS[FACES[f]][3]>> \in DOMAIN model.voxels
  THEN createVertices(model, vertices, cells, f + 1, 1)
  ELSE createVerticesNext(model, vertices, cells, f, vi, cornerOf(Head(cells), FACES[f], vi))

\* ------------------------------------------------------------------------
\* Two generations of one model text, each with the values it takes from
\* Math.random()
\* ------------------------------------------------------------------------
MaxSources == 3

\* value number i of source number s of Math.random(), in hundredths
RandomSource(s) == [i \in 1..300 |-> (37 * s * i + i * i + 11 * s) % 100]

\* the materials of the texts: deform, warp and scatter
WarpMaterials ==
  {[deform |-> None, warp |-> None, scatter |-> None],
   [deform |-> None, warp |-> [amplitude |-> 100, frequency |-> 1], scatter |-> None],
   [deform |-> None, warp |-> [amplitude |-> 200, frequency |-> 2], scatter |-> None],
   [deform |-> None, warp |-> None, scatter |-> [v |-> 50]],
   [deform |-> None, warp |-> [amplitude |-> 100, frequency |-> 2],
    scatter |-> [v |-> 100]]}

\* the models read from the texts: one voxel, or two next to each other,
\* each with its material, tiled or not
WarpModels ==
  {[voxels |-> voxels,
    tile |-> tile,
    min |-> <<0, 0, 0>>,
    max |-> <<IF <<1, 0, 0>> \in DOMAIN voxels THEN 1 ELSE 0, 0, 0>>] :
     voxels \in [{<<0, 0, 0>>} -> WarpMaterials]
                  \cup [{<<0, 0, 0>>, <<1, 0, 0>>} -> WarpMaterials],
     tile \in {{}, {"nx", "px"}}}

WarpInit ==
  /\ TextGiven({<<>>})
  /\ WriteIdle /\ SvoxIdle /\ RenderIdle
  /\ receiver \in WarpModels
  /\ outcome = <<>>

\* one generation of the model: the vertices of createFaces, then
\* warpAndScatter with the values Math.random() returns this time
GenerateWarped ==
  /\ Len(outcome) < 2
  /\ \E s \in 1..MaxSources :
       \E made \in {createVertices(receiver, <<>>,
                                     forEachOrder(DOMAIN receiver.voxels), 1, 1)} :
         outcome' = Append(outcome,
                      warpAndScatter(receiver @@ [vertices |-> made], RandomSource(s)))
  /\ UNCHANGED <<textVars, writeVars, svoxVars, renderVars, receiver>>

SpecWarp == WarpInit /\ [][GenerateWarped]_vars

\* no material of the model sets warp or scatter
Unwarped ==
  \A c \in DOMAIN receiver.voxels :
    receiver.voxels[c].warp = None /\ receiver.voxels[c].scatter = None

Unmoved(positions) == \A at \in DOMAIN positions : positions[at] = <<100 * at[1], 100 * at[2], 100 * at[3]>>

AskedCoordinates == DOMAIN grid.cells \cup DOMAIN grid'.cells

\* C25: after clearVoxel of an occupied cell getVoxel returns no voxel for
\* that cell and, for every other coordinate, the voxel it returned before
\* the call
ClearVoxelClearsOneCell ==
  [][MatrixClearVoxel =>
       \E c \in DOMAIN grid.cells :
         /\ getVoxel(grid', c[1], c[2], c[3]) = NoVoxel
         /\ \A d \in AskedCoordinates \ {c} :
              getVoxel(grid', d[1], d[2], d[3]) = getVoxel(grid, d[1], d[2], d[3])]_vars

\* clearVoxel of an empty cell changes nothing
ClearVoxelOfEmptyCell ==
  \A x \in (0 - MaxDrift)..MatrixX, row \in MatrixRows :
    <<x, row[1], row[2]>> \notin DOMAIN grid.cells =>
      clearVoxel(grid, x, row[1], row[2]) = grid

\* ------------------------------------------------------------------------
\* The tokens of a voxel string that the decoder takes
\* ------------------------------------------------------------------------
\* the chunk is a color id or a run of dashes
CellChunk(value) == value[1] \in Upper \/ value[1] = "-"

\* the while loops of _unpackRle take chunk number i: the outermost call has
\* not returned before it
TakenByUnpackRle(chunks, i) ==
  ~unpackRleChunks(unpackRleStart, chunks, 1, i - 1).done

\* the color ids and dash runs of a voxel string that _unpackRle never takes
DroppedChunks(s) ==
  LET chunks == matchChunks(s) IN
    {i \in DOMAIN chunks : CellChunk(chunks[i]) /\ ~TakenByUnpackRle(chunks, i)}

\* C26: every color id and '-' of the voxel string is taken into the decoded
\* cell sequence that is checked against the declared size, those that
\* follow a ')' without a matching '(' included
EveryTokenDecoded ==
  firstRead # NotRun => DroppedChunks(VoxelStringOf(text)) = {}

\* a text is read as a model although cells of its voxel string were dropped
ReadWithDroppedTokens ==
  /\ firstRead # NotRun
  /\ firstRead.throw = "none"
  /\ DroppedChunks(VoxelStringOf(text)) # {}

\* ------------------------------------------------------------------------
\* Simplifier on flat regions of voxels in one color
\* ------------------------------------------------------------------------
MaxRegionVoxels == 4   \* the most voxels of a region

\* the cells of the three planes that regions lie in, the plane across
\* axis a being three cells long and two cells wide
RegionPlane(a) ==
  {c \in (0..2) \X (0..2) \X (0..2) :
     /\ c[a] = 0
     /\ c[(a % 3) + 1] <= 2
     /\ c[((a + 1) % 3) + 1] <= 1}

\* model.voxels.setVoxel(x, y, z, new Voxel(color)) for a cell of the plane
\* that the voxels set before lie in, color being that of the first material
RegionSetVoxel ==
  /\ facesCreated = NotRun
  /\ scene.materials.materials # <<>>
  /\ scene.voxels.count < MaxRegionVoxels
  /\ \E a \in 1..3 : \E c \in RegionPlane(a) :
       /\ c \notin DOMAIN scene.voxels.cells
       /\ DOMAIN scene.voxels.cells \subseteq RegionPlane(a)
       /\ scene' = modelSetVoxel(scene, c[1], c[2], c[3],
                                 Voxel(scene.materials.materials[1].colors[1]))
  /\ facesCreated' = NotRun
  /\ UNCHANGED <<textVars, writeVars, svoxVars, callVars>>

\* the one material of the region, opaque or seen through
CreateRegionMaterial ==
  /\ scene.materials.materials = <<>>
  /\ CreateRerenderMaterial

RegionNext == CreateRegionMaterial \/ RegionSetVoxel \/ Generate

SpecRegion == RenderInit /\ [][RegionNext]_vars

\* the least and the greatest coordinate of four positions on axis a
LowOf(ps, a) == CHOOSE n \in {ps[i][a] : i \in 1..4} : \A i \in 1..4 : n <= ps[i][a]
HighOf(ps, a) == CHOOSE n \in {ps[i][a] : i \in 1..4} : \A i \in 1..4 : n >= ps[i][a]

\* the position lies in the box around the four positions
Within(p, ps) == \A a \in 1..3 : LowOf(ps, a) <= p[a] /\ p[a] <= HighOf(ps, a)

\* the four positions go around a rectangle along the axes
Rectangle(ps) ==
  /\ \E a \in 1..3 : LowOf(ps, a) = HighOf(ps, a)
  /\ Cardinality({ps[i] : i \in 1..4}) = 4
  /\ \A i \in 1..4 : \A a \in 1..3 : ps[i][a] \in {LowOf(ps, a), HighOf(ps, a)}
  /\ \A i \in 1..4 :
       Cardinality({a \in 1..3 : ps[i][a] # ps[(i % 4) + 1][a]}) = 1

\* the number of unit squares in a rectangle
AreaOf(ps) ==
  LET side(a) == IF HighOf(ps, a) = LowOf(ps, a) THEN 1 ELSE HighOf(ps, a) - LowOf(ps, a)
  IN side(1) * side(2) * side(3)

\* the faces created that lie in the rectangle of a face that is left, on
\* the same side of their voxels
UnitFacesIn(key) ==
  {unit \in facesCreated.faces :
     /\ unit[2] = key[2]
     /\ \A i \in 1..4 :
          Within(facesCreated.values[unit].vertices[i], facesCreated.left[key])}

\* the faces that were merged into the faces of a set, one after the other
RECURSIVE AbsorbedBy(_)
AbsorbedBy(keys) ==
  LET more == keys \cup {pair[2] : pair \in {p \in facesCreated.merged : p[1] \in keys}}
  IN IF more = keys THEN keys ELSE AbsorbedBy(more)

\* generate has run on voxels in one color whose faces carry the same
\* normals, ambient occlusion and vertex colors
FlatRegionGenerated ==
  /\ facesCreated # NotRun
  /\ \A c, d \in DOMAIN scene.voxels.cells :
       scene.voxels.cells[c].color = scene.voxels.cells[d].color
  /\ \A j, k \in DOMAIN facesCreated.values :
       /\ facesCreated.values[j].normals = facesCreated.values[k].normals
       /\ facesCreated.values[j].ao = facesCreated.values[k].ao
       /\ facesCreated.values[j].vertexColors = facesCreated.values[k].vertexColors

\* two voxels of the region are next to each other
TwoVoxelsWide ==
  \E c, d \in DOMAIN scene.voxels.cells : Distance2(c, d) = 1

ReportsKind(list, kind) ==
  LET reported == baseOf(list, Len(list.materials)) IN
    /\ reported.roughness = kind[1]
    /\ reported.opacity = kind[2]
    /\ reported.transparent = kind[3]
    /\ isTransparent(reported) = (kind[3] \/ kind[2] < 100)
    /\ reported.wireframe = kind[4]

\* C29: the Material that a call of createMaterial returns reports the
\* shading parameters of the call, the transparent flag included, also
\* when it shares its BaseMaterial with an earlier Material
ReportsOwnParameters ==
  [][\A kind \in CallKinds :
       scene'.materials = createMaterial(scene.materials, kind[1], kind[2], kind[3], kind[4])
         => ReportsKind(scene'.materials, kind)]_vars

\* the Material that a call of createMaterial returns reports the roughness,
\* the opacity and the wireframe flag of the call
ReportsOwnKeyParameters ==
  [][\A kind \in CallKinds :
       scene'.materials = createMaterial(scene.materials, kind[1], kind[2], kind[3], kind[4])
         => LET reported == baseOf(scene'.materials, Len(scene'.materials.materials)) IN
              /\ reported.roughness = kind[1]
              /\ reported.opacity = kind[2]
              /\ reported.wireframe = kind[4]]_vars

\* ------------------------------------------------------------------------
\* Model._createVertex: the deform setting of a vertex that voxels share
\* ------------------------------------------------------------------------
MaxVisits == 3   \* the most voxels that share the vertex

\* the deform settings of the materials, damping in percent: material.deform
\* after setDeform(count, strength, damping), or none
DeformSettings ==
  {None,
   [count |-> 1, strength |-> 2, damping |-> 100],
   [count |-> 3, strength |-> 1, damping |-> 100],
   [count |-> 1, strength |-> 1, damping |-> 100],
   [count |-> 2, strength |-> 4, damping |-> 50]}

DeformMaterials ==
  {[deform |-> deform, warp |-> None, scatter |-> None] : deform \in DeformSettings}

\* receiver holds the materials of the voxels visited so far, outcome the
\* vertex at the corner they share
VertexInit ==
  /\ TextGiven({<<>>})
  /\ WriteIdle /\ SvoxIdle /\ RenderIdle
  /\ receiver = <<>>
  /\ outcome = None

\* this._createVertex(voxel, faceName, vi, ...) for the corner of the next
\* voxel that lies at the shared position
CreateVertex ==
  /\ Len(receiver) < MaxVisits
  /\ \E material \in DeformMaterials :
       /\ outcome' = createVertexOf(outcome, material)
       /\ receiver' = Append(receiver, material)
  /\ UNCHANGED <<textVars, writeVars, svoxVars, renderVars>>

SpecVertex == VertexInit /\ [][CreateVertex]_vars

\* the vertex after _createVertex for voxels of the materials from i on
RECURSIVE createVertexFor(_, _, _)
createVertexFor(vertex, materials, i) ==
  IF i > Len(materials) THEN vertex
  ELSE createVertexFor(createVertexOf(vertex, materials[i]), materials, i + 1)

\* the orders the voxels of the materials can be visited in
OrdersOf(materials) ==
  {[i \in DOMAIN materials |-> materials[order[i]]] :
     order \in {f \in [DOMAIN materials -> DOMAIN materials] :
                  \A i, j \in DOMAIN materials : f[i] = f[j] => i = j}}

\* the deform kept is none if a material visited has none, and otherwise a
\* setting of a material visited with the smallest integral among them
LeastDeformKept ==
  receiver # <<>> =>
    IF \E i \in DOMAIN receiver : receiver[i].deform = None
    THEN outcome.deform = None
    ELSE /\ \E i \in DOMAIN receiver : outcome.deform = receiver[i].deform
         /\ \A i \in DOMAIN receiver :
              ~Less(getDeformIntegral(receiver[i].deform), getDeformIntegral(outcome.deform))

\* two of the materials visited have different deform settings with the
\* same integral
EqualIntegrals ==
  \E i, j \in DOMAIN receiver :
    /\ receiver[i].deform # None /\ receiver[j].deform # None
    /\ receiver[i].deform # receiver[j].deform
    /\ ~Less(getDeformIntegral(receiver[i].deform), getDeformIntegral(receiver[j].deform))
    /\ ~Less(getDeformIntegral(receiver[j].deform), getDeformIntegral(receiver[i].deform))

\* C30: the deform setting kept on a vertex that voxels of several
\* materials share is none if one of the materials has no deform and
\* otherwise the setting with the smallest deform integral among them, and
\* it is the same in whatever order the voxels are visited, also when two
\* materials have equal integrals
LeastDeformWins ==
  /\ LeastDeformKept
  /\ \A order \in OrdersOf(receiver) :
       receiver # <<>> => createVertexFor(None, order, 1).deform = outcome.deform

\* the same, for materials of which no two have different settings with
\* equal integrals
LeastDeformWinsWithoutTies ==
  ~EqualIntegrals =>
    \A order \in OrdersOf(receiver) :
      receiver # <<>> => createVertexFor(None, order, 1).deform = outcome.deform

\* ------------------------------------------------------------------------
\* The mesh that SvoxMeshGenerator.generate returns
\* ------------------------------------------------------------------------
\* the vertices of the f-th face pushed to a buffer, three numbers each
VerticesPushed(buffer, f) ==
  [v \in 1..6 |-> <<buffer[18 * (f - 1) + 3 * (v - 1) + 1],
                    buffer[18 * (f - 1) + 3 * (v - 1) + 2],
                    buffer[18 * (f - 1) + 3 * (v - 1) + 3]>>]

\* every face left is pushed exactly once, as the two triangles over its
\* four corners
FacesEmittedOnce(mesh) ==
  /\ {mesh.emitted[f] : f \in 1..Len(mesh.emitted)} = DOMAIN facesCreated.left
  /\ Len(mesh.emitted) = Cardinality(DOMAIN facesCreated.left)
  /\ Len(mesh.positions) = 18 * Len(mesh.emitted)
  /\ \A f \in 1..Len(mesh.emitted) :
       LET vert == facesCreated.left[mesh.emitted[f]] IN
         VerticesPushed(mesh.positions, f)
           = <<vert[3], vert[2], vert[1], vert[1], vert[4], vert[3]>>

\* the groups follow each other from vertex 0 to the last vertex, each
\* with the index of a material of the mesh
GroupsCoverMesh(mesh) ==
  /\ mesh.groups # <<>>
  /\ mesh.groups[1].start = 0
  /\ \A g \in 1..Len(mesh.groups) :
       /\ mesh.groups[g].count >= 0
       /\ mesh.groups[g].start + mesh.groups[g].count =
            (IF g < Len(mesh.groups) THEN mesh.groups[g + 1].start
             ELSE Len(mesh.positions) \div 3)
       /\ mesh.groups[g].materialIndex \in 0..(Len(mesh.materials) - 1)

\* C28: in the mesh generate returns every face left by simplify is
\* emitted exactly once as two triangles, the position, normal and color
\* buffers hold the same number of vertices, the groups are contiguous, do
\* not overlap and cover every vertex, and the materialIndex of every group
\* is an index of mesh.materials
MeshIsWellFormed ==
  facesCreated # NotRun =>
    /\ FacesEmittedOnce(facesCreated.mesh)
    /\ Len(facesCreated.mesh.positions) % 3 = 0
    /\ Len(facesCreated.mesh.normals) = Len(facesCreated.mesh.positions)
    /\ Len(facesCreated.mesh.colors) = Len(facesCreated.mesh.positions)
    /\ GroupsCoverMesh(facesCreated.mesh)
    /\ facesCreated.triangles = 2 * Len(facesCreated.mesh.emitted)

\* a mesh of two groups with faces, one of a merged face, was generated
TwoGroupsGenerated ==
  /\ facesCreated # NotRun
  /\ Len(facesCreated.mesh.groups) = 2
  /\ \A g \in 1..2 : facesCreated.mesh.groups[g].count > 0
  /\ facesCreated.mesh.groups[1].materialIndex # facesCreated.mesh.groups[2].materialIndex

====
